---- MODULE Spec2Model ----
(***************************************************************************)
(* Model of the upload gate (server/routes/api.js uploadHandler), of the   *)
(* file classifier it calls (server/utils/fileValidation.js, reproduced in *)
(* CORRUPTED_FILES_TEST_GUIDE.md) and of the handshake routes.             *)
(*                                                                         *)
(* Numbers: scores are in hundredths (0.5 is 50), entropies in thousandths *)
(* of a bit per byte (4.5 is 4500).                                        *)
(***************************************************************************)
EXTENDS Integers, Sequences, FiniteSets, TLC

(***************************************************************************)
(* Byte buffers are sequences over 0..255.                                 *)
(***************************************************************************)
Fill(b, n) == [i \in 1..n |-> b]

Ramp(from, n) == [i \in 1..n |-> (from + i - 1) % 256]

Slice(buf, lo, hi) == [i \in 1..(hi - lo) |-> buf[lo + i]]

LastBytes(buf, n) ==
    IF Len(buf) <= n THEN buf ELSE Slice(buf, Len(buf) - n, Len(buf))

NullType == "null"

OctetStream == "application/octet-stream"

FILE_SIGNATURES ==
    << [mime |-> "image/jpeg", sig |-> <<255, 216, 255>>],
       [mime |-> "image/png", sig |-> <<137, 80, 78, 71, 13, 10, 26, 10>>],
       [mime |-> "image/gif", sig |-> <<71, 73, 70, 56>>],
       [mime |-> "image/webp", sig |-> <<82, 73, 70, 70>>],
       [mime |-> "application/pdf", sig |-> <<37, 80, 68, 70>>],
       [mime |-> "application/msword", sig |-> <<208, 207, 17, 224>>],
       [mime |-> "application/vnd.openxmlformats-officedocument.wordprocessingml.document",
        sig |-> <<80, 75, 3, 4>>],
       [mime |-> "application/zip", sig |-> <<80, 75, 3, 4>>],
       [mime |-> "application/x-rar-compressed", sig |-> <<82, 97, 114, 33>>],
       [mime |-> "application/x-7z-compressed", sig |-> <<55, 122, 188, 175, 39, 28>>],
       [mime |-> "application/x-msdownload", sig |-> <<77, 90>>],
       [mime |-> "application/x-executable", sig |-> <<127, 69, 76, 70>>] >>

SignatureMatches(buf, sig) ==
    /\ Len(buf) >= Len(sig)
    /\ \A i \in 1..Len(sig) : buf[i] = sig[i]

\* a detection that keeps the last matching entry of the table
detectFileType_LastMatch(buf) ==
    IF Len(buf) = 0 THEN NullType
    ELSE LET hits == {k \in 1..Len(FILE_SIGNATURES) :
                         SignatureMatches(buf, FILE_SIGNATURES[k].sig)}
         IN  IF hits = {} THEN OctetStream
             ELSE FILE_SIGNATURES[CHOOSE k \in hits : \A j \in hits : k >= j].mime

detectFileType(buf) ==
    IF Len(buf) = 0 THEN NullType
    ELSE LET hits == {k \in 1..Len(FILE_SIGNATURES) :
                         SignatureMatches(buf, FILE_SIGNATURES[k].sig)}
         IN  IF hits = {} THEN OctetStream
             ELSE FILE_SIGNATURES[CHOOSE k \in hits : \A j \in hits : k <= j].mime

(***************************************************************************)
(* Shannon entropy in thousandths of a bit.  Log2x1000 is a fixed-point    *)
(* base-2 logarithm (exact on powers of two, within 3/1000 elsewhere).     *)
(***************************************************************************)
RECURSIVE FloorLog2(_)
FloorLog2(n) == IF n < 2 THEN 0 ELSE 1 + FloorLog2(n \div 2)

RECURSIVE FracBits(_, _, _)
FracBits(m, k, acc) ==
    IF k = 0 THEN acc
    ELSE LET sq == (m * m) \div 16384
         IN  IF sq >= 32768 THEN FracBits(sq \div 2, k - 1, 2 * acc + 1)
             ELSE FracBits(sq, k - 1, 2 * acc)

Log2x1000(n) ==
    LET e == FloorLog2(n)
        m == (n * 16384) \div (2 ^ e)
    IN  1000 * e + (1000 * FracBits(m, 12, 0)) \div 4096

ByteCount(buf, v) == Cardinality({i \in 1..Len(buf) : buf[i] = v})

RECURSIVE SumCLogC(_, _, _)
SumCLogC(buf, lo, hi) ==
    IF lo = hi
    THEN LET c == ByteCount(buf, lo)
         IN  IF c = 0 THEN 0 ELSE c * Log2x1000(c)
    ELSE LET mid == (lo + hi) \div 2
         IN  SumCLogC(buf, lo, mid) + SumCLogC(buf, mid + 1, hi)

calculateShannonEntropy(buf) ==
    IF Len(buf) = 0 THEN 0
    ELSE Log2x1000(Len(buf)) - (SumCLogC(buf, 0, 255) \div Len(buf))

(***************************************************************************)
(* File names.  A name is absent (undefined) or a string, kept as the list *)
(* of its parts between dots: "valid.txt" is <<"valid", "txt">>, the empty *)
(* string is <<"">>.                                                       *)
(***************************************************************************)
NoName == [given |-> FALSE, parts |-> <<>>]

Name(parts) == [given |-> TRUE, parts |-> parts]

Truthy(filename) == filename.given /\ filename.parts # <<"">>

toLowerCase(str) ==
    CASE str = "JPG" -> "jpg"
      [] str = "PNG" -> "png"
      [] str = "TXT" -> "txt"
      [] OTHER -> str

\* filename.split('.').pop()?.toLowerCase()
Extension(filename) == toLowerCase(filename.parts[Len(filename.parts)])

\* /\.(txt|log|json|xml|html|css|js)$/i.test(filename)
HasTextExtension(filename) ==
    /\ Len(filename.parts) >= 2
    /\ Extension(filename) \in {"txt", "log", "json", "xml", "html", "css", "js"}

typeMismatches ==
    [ext \in {"jpg", "jpeg", "png", "gif", "pdf", "zip", "exe", "dll"} |->
        CASE ext \in {"jpg", "jpeg"} -> "image/jpeg"
          [] ext = "png" -> "image/png"
          [] ext = "gif" -> "image/gif"
          [] ext = "pdf" -> "application/pdf"
          [] ext = "zip" -> "application/zip"
          [] ext \in {"exe", "dll"} -> "application/x-msdownload"]

(***************************************************************************)
(* checkRepeatedPattern.  Chunk j (j = 1..T) is the patternLen bytes at    *)
(* offset patternLen*j; the loop keeps the length of the current run of    *)
(* chunks equal to the first one (matches) and the number of chunks seen   *)
(* (totalChecked = j).  Every return inside the loop returns true, so the  *)
(* result is whether some chunk triggers one.                              *)
(***************************************************************************)
ChunkEquals(buf, patternLen, j) ==
    \A t \in 1..patternLen : buf[patternLen * j + t] = buf[t]

\* value of `matches` after chunk j was processed without returning
MatchesAfter(buf, patternLen, j) ==
    Cardinality({k \in 1..j :
                    \A d \in 0..(k - 1) : ChunkEquals(buf, patternLen, j - d)})

PatternRepeats(buf, patternLen) ==
    LET T == (Len(buf) - patternLen - 1) \div patternLen
    IN  /\ Len(buf) >= patternLen * 3
        /\ \/ \E j \in 4..T :
                 /\ \A d \in 0..3 : ChunkEquals(buf, patternLen, j - d)
                 /\ 2 * MatchesAfter(buf, patternLen, j) > j
           \/ \E j \in 7..T :
                 /\ ~ChunkEquals(buf, patternLen, j)
                 /\ \A d \in 1..6 : ChunkEquals(buf, patternLen, j - d)
           \/ /\ T > 0
              /\ MatchesAfter(buf, patternLen, T) > 10
              /\ 5 * MatchesAfter(buf, patternLen, T) > 2 * T

checkRepeatedPattern(buf) ==
    /\ Len(buf) >= 8
    /\ \/ \E patternLen \in 1..4 : PatternRepeats(buf, patternLen)
       \/ /\ Len(buf) > 20
          /\ 10 * ByteCount(buf, buf[1]) > 7 * Len(buf)

(***************************************************************************)
(* getEntropyFeatures (server/utils/entropy.js): entropy is the Shannon    *)
(* entropy of the whole buffer; whether the windowed entropy variance      *)
(* exceeds 2.0 is a property of the uploaded bytes given with the input.   *)
(***************************************************************************)
getEntropyFeatures(buf, varHigh) ==
    [entropy |-> calculateShannonEntropy(buf), variance_above_2 |-> varHigh]

detectCorruption(buf, filename, varHigh) ==
    LET features == getEntropyFeatures(buf, varHigh)
        detected == detectFileType(buf)
        nullText ==
            IF /\ Truthy(filename) /\ HasTextExtension(filename)
               /\ ByteCount(buf, 0) > 0 /\ Len(buf) < 10000
            THEN <<"Contains null bytes (possible corruption)">> ELSE <<>>
        repeated ==
            IF /\ Len(buf) > 20
               /\ checkRepeatedPattern(
                      IF Len(buf) <= 1000 THEN buf ELSE Slice(buf, 0, 1000))
            THEN <<"Suspicious repeated pattern detected">> ELSE <<>>
        nullRatio ==
            IF Len(buf) > 50 /\ 10 * ByteCount(buf, 0) > 2 * Len(buf)
            THEN <<"High concentration of null bytes">> ELSE <<>>
        highEntropy ==
            IF features.entropy > 7800 /\ Len(buf) > 512
            THEN <<"Extremely high entropy">> ELSE <<>>
        lowEntropy ==
            IF /\ features.entropy < 2500 /\ Len(buf) > 500
               /\ detected # NullType
               /\ detected # "text/plain"
               /\ detected # OctetStream
            THEN <<"Unusually low entropy for type">> ELSE <<>>
        variance ==
            IF features.variance_above_2 /\ Len(buf) > 1000
            THEN <<"High entropy variance">> ELSE <<>>
        issues == nullText \o repeated \o nullRatio \o highEntropy
                      \o lowEntropy \o variance
    IN  [isCorrupted |-> issues # <<>>,
         issues |-> issues,
         entropy |-> features.entropy,
         detectedType |-> detected]

(***************************************************************************)
(* Format parsers.  sharp, pdf-parse and adm-zip are libraries: whether    *)
(* the parse of the uploaded bytes succeeds ("ok") or throws ("throws") is *)
(* given with the input.                                                   *)
(***************************************************************************)
PNG_IEND == <<73, 69, 78, 68, 174, 66, 96, 130>>

PNG_START == <<137, 80, 78, 71, 13, 10, 26, 10>>

validateImage(buf, detectedType, parse) ==
    LET jpeg ==
            IF detectedType \in {"image/jpeg", "image/jpg"}
            THEN (IF /\ Len(buf) > 10
                     /\ LastBytes(buf, 2) # <<255, 217>>
                  THEN <<"JPEG file appears truncated (missing end marker)">>
                  ELSE <<>>)
                 \o (IF parse = "throws" THEN <<"JPEG parse error">> ELSE <<>>)
            ELSE <<>>
        png ==
            IF detectedType = "image/png"
            THEN (IF /\ Len(buf) > 8
                     /\ LastBytes(buf, 8) # PNG_IEND
                     /\ Slice(buf, 0, 8) = PNG_START
                  THEN <<"PNG file may be truncated or corrupted">>
                  ELSE <<>>)
                 \o (IF parse = "throws" THEN <<"PNG parse error">> ELSE <<>>)
            ELSE <<>>
        gif ==
            IF detectedType = "image/gif" /\ parse = "throws"
            THEN <<"GIF parse error">> ELSE <<>>
    IN  jpeg \o png \o gif

validatePDF(buf, parse) ==
    IF parse = "throws" THEN <<"PDF parse error">> ELSE <<>>

validateZIP(buf, parse) ==
    IF parse = "throws" THEN <<"ZIP parse error">> ELSE <<>>

checkFileStructure(buf, filename, parse) ==
    IF ~Truthy(filename) THEN <<>>
    ELSE LET detectedType == detectFileType(buf)
             extension == Extension(filename)
             mismatch ==
                 IF /\ detectedType # NullType
                    /\ extension # ""
                    /\ extension \in DOMAIN typeMismatches
                    /\ detectedType # typeMismatches[extension]
                    /\ detectedType # OctetStream
                 THEN <<"File extension does not match detected type">>
                 ELSE <<>>
             image ==
                 IF detectedType \in {"image/jpeg", "image/png", "image/gif", "image/webp"}
                 THEN validateImage(buf, detectedType, parse) ELSE <<>>
             pdf ==
                 IF detectedType = "application/pdf"
                 THEN validatePDF(buf, parse) ELSE <<>>
             zip ==
                 IF detectedType = "application/zip"
                 THEN validateZIP(buf, parse) ELSE <<>>
         IN  mismatch \o image \o pdf \o zip

(***************************************************************************)
(* classifyFileCriticality: the level is decided by the entropy alone.     *)
(***************************************************************************)
\* the bands with the boundary 4.5 falling into the band below it
EntropyBand_Closed45(entropy) ==
    IF entropy = 0
    THEN [level |-> 4, reason |-> "Empty or fully corrupted file"]
    ELSE IF entropy <= 4500
    THEN [level |-> 3, reason |-> "Very low entropy - truncated or broken file structure"]
    ELSE IF entropy < 7200
    THEN [level |-> 0, reason |-> "Normal entropy - likely safe"]
    ELSE IF entropy < 7900
    THEN [level |-> 2, reason |-> "High entropy - encrypted/compressed/suspicious"]
    ELSE [level |-> 4, reason |-> "Extremely high entropy - malware-like randomness"]

EntropyBand(entropy) ==
    IF entropy = 0
    THEN [level |-> 4, reason |-> "Empty or fully corrupted file"]
    ELSE IF entropy < 4500
    THEN [level |-> 3, reason |-> "Very low entropy - truncated or broken file structure"]
    ELSE IF entropy >= 4500 /\ entropy < 7200
    THEN [level |-> 0, reason |-> "Normal entropy - likely safe"]
    ELSE IF entropy >= 7200 /\ entropy < 7900
    THEN [level |-> 2, reason |-> "High entropy - encrypted/compressed/suspicious"]
    ELSE IF entropy >= 7900
    THEN [level |-> 4, reason |-> "Extremely high entropy - malware-like randomness"]
    ELSE [level |-> 1, reason |-> "Unexpected entropy pattern"]

classifyFileCriticality(buf) ==
    LET entropy == calculateShannonEntropy(buf)
        band == EntropyBand(entropy)
    IN  [level |-> band.level,
         riskScore |-> 100 * band.level,
         reasons |-> <<band.reason>>,
         entropy |-> entropy,
         detectedType |-> detectFileType(buf)]

NoLevel == -1

validateFile(buf, filename, parse, varHigh) ==
    IF Len(buf) = 0
    THEN [isValid |-> FALSE, isCorrupted |-> FALSE, isSuspicious |-> FALSE,
          riskScore |-> 0, issues |-> <<"File is empty">>,
          detectedType |-> NullType, entropy |-> 0,
          criticalityLevel |-> NoLevel]
    ELSE LET corruptionCheck == detectCorruption(buf, filename, varHigh)
             structureIssues == checkFileStructure(buf, filename, parse)
             criticality == classifyFileCriticality(buf)
         IN  [isValid |-> criticality.level < 2,
              isCorrupted |-> \/ corruptionCheck.isCorrupted
                              \/ structureIssues # <<>>
                              \/ criticality.level >= 2,
              isSuspicious |-> criticality.level >= 1,
              riskScore |-> criticality.riskScore,
              issues |-> corruptionCheck.issues \o structureIssues
                             \o criticality.reasons,
              detectedType |-> detectFileType(buf),
              entropy |-> criticality.entropy,
              criticalityLevel |-> criticality.level]

(***************************************************************************)
(* The uploads that are tried.  An upload names its bytes (Bytes), carries *)
(* the multipart file name, the outcome of the format parser on the bytes, *)
(* whether their windowed entropy variance exceeds 2.0, and req.file.size. *)
(***************************************************************************)
JPEG_HEAD == <<255, 216, 255, 224>>

Text38 ==
    <<84, 104, 105, 115, 32, 105, 115, 32, 97, 32, 118, 97, 108, 105, 100, 32,
      116, 101, 120, 116, 32, 102, 105, 108, 101, 32, 102, 111, 114, 32, 116,
      101, 115, 116, 105, 110, 103, 46>>

Text54 ==
    <<84, 104, 105, 115, 32, 105, 115, 32, 97, 32, 110, 111, 114, 109, 97, 108,
      32, 116, 101, 115, 116, 32, 102, 105, 108, 101, 32, 99, 111, 110, 116,
      101, 110, 116, 32, 102, 111, 114, 32, 117, 112, 108, 111, 97, 100, 32,
      116, 101, 115, 116, 105, 110, 103, 46>>

Bytes(id) ==
    CASE id = "empty" -> <<>>
      [] id = "text38" -> Text38
      [] id = "text54" -> Text54
      [] id = "dyadic32" -> Ramp(0, 8) \o Ramp(0, 24)
      [] id = "varied64" -> Ramp(32, 64)
      [] id = "varied160" -> Ramp(0, 160)
      [] id = "random1024" -> Ramp(0, 1024)
      [] id = "random2048" -> Ramp(0, 2048)
      [] id = "allFF1000" -> Fill(255, 1000)
      [] id = "allAA64" -> Fill(170, 64)
      [] id = "nulls520" -> <<86, 65, 76, 73, 68, 95, 83, 84, 65, 82, 84>>
                                \o Fill(0, 500)
                                \o <<86, 65, 76, 73, 68, 95, 69, 78, 68>>
      [] id = "jpegBroken" -> JPEG_HEAD \o Fill(0, 100) \o Fill(255, 50)
      [] id = "jpegNoEnd" -> JPEG_HEAD \o Ramp(32, 64)
      [] id = "jpegNoEndHigh" -> JPEG_HEAD \o Ramp(0, 160)
      [] id = "jpegNoEndRandom" -> JPEG_HEAD \o Ramp(0, 256)
      [] id = "jpegWhole" -> JPEG_HEAD \o Ramp(32, 64) \o <<255, 217>>
      [] id = "pngZeros" -> PNG_START \o Fill(0, 200)
      [] id = "pngCut" -> PNG_START \o Ramp(32, 64)
      [] id = "pngCutHigh" -> PNG_START \o Ramp(0, 160)
      [] id = "pngCutRandom" -> PNG_START \o Ramp(0, 256)
      [] id = "pngWhole" -> PNG_START \o Ramp(32, 64) \o PNG_IEND
      [] id = "pdfWhole" -> <<37, 80, 68, 70>> \o Ramp(32, 64) \o <<37, 37, 69, 79, 70>>
      [] id = "zipVaried" -> <<80, 75, 3, 4>> \o Ramp(32, 64)

BufferIds ==
    {"empty", "text38", "text54", "dyadic32", "varied64", "varied160",
     "random1024",
     "random2048",
     "allFF1000", "allAA64", "nulls520", "jpegBroken", "jpegNoEnd", "jpegNoEndHigh",
     "jpegNoEndRandom", "jpegWhole",
     "pngZeros", "pngCut", "pngCutHigh", "pngCutRandom", "pngWhole",
     "pdfWhole", "zipVaried"}

Upload(buf, name, parse, varHigh) ==
    [attached |-> TRUE, buf |-> buf, name |-> name, parse |-> parse,
     varHigh |-> varHigh, length |-> Len(Bytes(buf)), size |-> Len(Bytes(buf))]

\* a request without a file part (req.file undefined)
NoFilePart ==
    [attached |-> FALSE, buf |-> "empty", name |-> NoName, parse |-> "ok",
     varHigh |-> FALSE, length |-> 0, size |-> 0]

\* the same upload with another req.file.size
OfSize(f, size) == [f EXCEPT !.size = size]

UploadInputs ==
    {NoFilePart,
     OfSize(Upload("dyadic32", Name(<<"large", "bin">>), "ok", FALSE),
            100 * 1024 * 1024),
     OfSize(Upload("dyadic32", Name(<<"large", "bin">>), "ok", FALSE),
            100 * 1024 * 1024 + 1),
     Upload("empty", Name(<<"empty", "txt">>), "ok", FALSE),
     Upload("text38", Name(<<"valid", "txt">>), "ok", FALSE),
     Upload("text54", Name(<<"test_normal", "txt">>), "ok", FALSE),
     Upload("varied64", Name(<<"notes", "txt">>), "ok", FALSE),
     Upload("varied64", NoName, "ok", FALSE),
     Upload("varied160", Name(<<"data", "bin">>), "ok", FALSE),
     Upload("random2048", NoName, "ok", FALSE),
     Upload("random1024", Name(<<"encrypted_data", "bin">>), "ok", TRUE),
     Upload("allFF1000", Name(<<"pattern", "bin">>), "ok", FALSE),
     Upload("jpegBroken", Name(<<"corrupted", "jpg">>), "throws", FALSE),
     Upload("jpegNoEnd", Name(<<"photo", "JPG">>), "ok", FALSE),
     Upload("jpegWhole", Name(<<"photo", "jpg">>), "ok", FALSE),
     Upload("pngZeros", Name(<<"corrupted", "png">>), "throws", FALSE),
     Upload("pngCut", Name(<<"image", "png">>), "ok", FALSE),
     Upload("pngCut", Name(<<"">>), "ok", FALSE),
     Upload("pngCut", NoName, "ok", FALSE),
     Upload("pngCutHigh", NoName, "ok", FALSE),
     Upload("pngCutRandom", Name(<<"">>), "ok", FALSE),
     Upload("pngWhole", Name(<<"image", "png">>), "ok", FALSE),
     Upload("pngWhole", Name(<<"image", "png">>), "throws", FALSE),
     Upload("zipVaried", Name(<<"archive", "zip">>), "ok", FALSE),
     Upload("zipVaried", Name(<<"archive", "zip">>), "throws", FALSE)}

Validation ==
    [f \in UploadInputs |->
        validateFile(Bytes(f.buf), f.name, f.parse, f.varHigh)]

(***************************************************************************)
(* The anomaly oracle (callIDS): a reply, or a failure of the call.        *)
(***************************************************************************)
IdsDown == [anomaly_score |-> 0, verdict |-> "unreachable"]

IdsReplies ==
    {[anomaly_score |-> 10, verdict |-> "normal"],
     [anomaly_score |-> 90, verdict |-> "normal"],
     [anomaly_score |-> 10, verdict |-> "suspicious"],
     [anomaly_score |-> 90, verdict |-> "suspicious"],
     IdsDown}

NoIds == [anomaly_score |-> 0, verdict |-> "none", error |-> "none"]

Max(a, b) == IF a >= b THEN a ELSE b

Min(a, b) == IF a <= b THEN a ELSE b

maxSize == 100 * 1024 * 1024

\* line 243: the score recorded when the oracle is unreachable
ConservativeFloor == 80

\* lines 229 and 248: the score above which a result counts as suspicious
AcceptThreshold == 50

\* a handler that sends every classified upload on to the oracle
shouldReject_Never(v) == FALSE

\* lines 111-112: criticalityLevel ?? 0, shouldReject
shouldReject(v) ==
    (IF v.criticalityLevel = NoLevel THEN 0 ELSE v.criticalityLevel) >= 2

\* a catch that sets the floor without the error field
idsResultOf_NoMarker(v, reply) ==
    IF reply # IdsDown
    THEN [anomaly_score |-> reply.anomaly_score, verdict |-> reply.verdict,
          error |-> "none"]
    ELSE [anomaly_score |-> Max(ConservativeFloor, v.riskScore),
          verdict |-> "suspicious", error |-> "none"]

\* a catch that keeps the initial { anomaly_score: 0.1, verdict: 'normal' }
idsResultOf_DefaultOnFailure(v, reply) ==
    IF reply # IdsDown
    THEN [anomaly_score |-> reply.anomaly_score, verdict |-> reply.verdict,
          error |-> "none"]
    ELSE [anomaly_score |-> 10, verdict |-> "normal", error |-> "none"]

\* lines 222-245: the idsResult the handler goes on with
idsResultOf(v, reply) ==
    IF reply # IdsDown
    THEN IF v.riskScore > 30
         THEN LET score == Max(reply.anomaly_score, v.riskScore)
              IN  [anomaly_score |-> score,
                   verdict |-> IF score > AcceptThreshold THEN "suspicious"
                               ELSE reply.verdict,
                   error |-> "none"]
         ELSE [anomaly_score |-> reply.anomaly_score,
               verdict |-> reply.verdict, error |-> "none"]
    ELSE IF v.riskScore > 30
         THEN [anomaly_score |-> v.riskScore, verdict |-> "suspicious",
               error |-> "IDS service unavailable but file validation detected issues"]
         ELSE [anomaly_score |-> ConservativeFloor, verdict |-> "suspicious",
               error |-> "IDS service unavailable"]

\* a store condition that looks at the oracle's verdict only
blockedAfterIds_VerdictOnly(v, idsResult) ==
    idsResult.verdict = "suspicious"

\* the store condition without the isCorrupted disjunct
blockedAfterIds_IgnoreCorrupted(v, idsResult) ==
    \/ idsResult.verdict = "suspicious"
    \/ v.riskScore > AcceptThreshold

\* line 248: the condition under which the file is not stored
blockedAfterIds(v, idsResult) ==
    \/ idsResult.verdict = "suspicious"
    \/ v.isCorrupted
    \/ v.riskScore > AcceptThreshold

threatType(v) == IF v.isCorrupted THEN "CorruptedFile" ELSE "SuspiciousFile"

\* lines 136-158: the alert of the criticality branch
validationAlert(user, f, v) ==
    [userId |-> user,
     severity |-> IF v.riskScore > 70 THEN "critical" ELSE "high",
     threat_type |-> threatType(v),
     ml_score |-> Min(v.riskScore, 100),
     resolved |-> FALSE,
     filename |-> f.name,
     issues |-> v.issues,
     detected_type |-> v.detectedType,
     entropy |-> v.entropy,
     has_entropy |-> TRUE,
     blocked |-> TRUE,
     ids |-> NoIds]

\* lines 250-273: the alert of the branch after the oracle call
idsAlert(user, f, v, idsResult) ==
    [userId |-> user,
     severity |-> "high",
     threat_type |-> threatType(v),
     ml_score |-> Max(idsResult.anomaly_score, v.riskScore),
     resolved |-> FALSE,
     filename |-> f.name,
     issues |-> v.issues,
     detected_type |-> v.detectedType,
     entropy |-> 0,
     has_entropy |-> FALSE,
     blocked |-> TRUE,
     ids |-> idsResult]

\* lines 293-302
transferDoc(user, f, idsResult) ==
    [userId |-> user, filename |-> f.name, size |-> f.size,
     status |-> "completed", progress |-> 100,
     encryption_method |-> "AES-GCM", ids_result |-> idsResult]

(***************************************************************************)
(* State.                                                                  *)
(***************************************************************************)
MaxUploads == 2

Users == {"alice", "bob"}

VARIABLES
    reqs,       \* the upload requests received so far, each with its position
    alerts,     \* the Alert collection, in creation order
    transfers,  \* the Transfer collection, in creation order
    input,      \* the arguments of a direct call of validateFile
    assessment, \* what that call returned
    sessions,   \* the handshake sessions, by handshakeId
    calls,      \* the validate calls received so far, each with its position
    connLogs,   \* the ConnectionLog collection: how many records of each status
    lastInit,   \* the answer to the latest handshake init request
    anon,       \* the answer to the latest request without a valid token
    client      \* the state of the browser's panels

vars == <<reqs, alerts, transfers, input, assessment, sessions, calls, connLogs,
          lastInit, anon, client>>

uploadVars == <<reqs, alerts, transfers>>

classifyVars == <<input, assessment>>

handshakeVars == <<sessions, calls, connLogs, lastInit>>

NoInput == [buf |-> "empty", name |-> NoName, parse |-> "ok", varHigh |-> FALSE]

NotAssessed == [assessed |-> FALSE]

UploadInit ==
    /\ reqs = <<>>
    /\ alerts = <<>>
    /\ transfers = <<>>

ClassifyIdle ==
    /\ input = NoInput
    /\ assessment = NotAssessed

LogStatuses == {"pending", "success", "failed"}

NoAnswer == [route |-> "none", status |-> 0]

NoInit == [route |-> "none", status |-> 0, handshakeId |-> 0, error |-> "none",
           logs |-> 0]

\* ConnectionLog.create({ status, handshake_type: 'X25519', details })
logged(logs, status) == [logs EXCEPT ![status] = @ + 1]

logCount(logs) == logs["pending"] + logs["success"] + logs["failed"]

HandshakeInit ==
    /\ sessions = <<>>
    /\ calls = <<>>
    /\ connLogs = [status \in LogStatuses |-> 0]
    /\ lastInit = NoInit

NoReply == [anomaly_score |-> 0, verdict |-> "none"]

\* lines 160-186: the 'intrusion_alert' message reaches the open WebSocket
\* clients, or client.send throws and the catch logs a warning
WsOutcomes == {"sent", "throws"}

\* the users whose dashboard holds an open WebSocket (api.ts 178-193: the
\* socket is opened on /ws and every 'intrusion_alert' message is taken)
WsClients == Users

\* lines 163-165: wss.clients.forEach sends to every client whose readyState
\* is OPEN
wsRecipients(owner, clients) == clients

(***************************************************************************)
(* The browser.  HandshakePanel keeps isConnecting, connectionStatus and   *)
(* backendStatus as React state, the three localStorage items, and one     *)
(* position per invocation of initiateHandshake.                           *)
(***************************************************************************)
StorageKeys == {"session_key", "handshake_id", "server_pubkey"}

HandshakePanelInit ==
    [isConnecting |-> FALSE, connectionStatus |-> "idle",
     backendStatus |-> "checking", healthPending |-> TRUE,
     storage |-> {}, invocations |-> <<>>]

\* part_001 lines 407-415 and 418: the panel mounts in live mode, calls
\* loadAlerts and connects its socket; stored is the server's Alert collection
AlertsPanelInit ==
    [alerts |-> <<>>, liveMode |-> TRUE, socket |-> "connecting",
     wsQueue |-> <<>>, requests |-> 1, replies |-> {}, stored |-> <<>>]

\* FileTransferPanel.tsx lines 23-26
TransferPanelInit == [queue |-> <<>>, backendStatus |-> "checking"]

ClientInit ==
    [handshakePanel |-> HandshakePanelInit, alertsPanel |-> AlertsPanelInit,
     transferPanel |-> TransferPanelInit]

NewRequest(user, f) ==
    [user |-> user, file |-> f, pc |-> "done", validated |-> FALSE,
     idsCalled |-> FALSE, reply |-> NoReply, idsResult |-> NoIds,
     status |-> 0, bodyStatus |-> "none", error |-> "none",
     alertsMade |-> 0, transfersMade |-> 0, dbFailed |-> FALSE,
     ws |-> "none", delivered |-> {}]

Init ==
    /\ UploadInit
    /\ ClassifyIdle
    /\ HandshakeInit
    /\ anon = NoAnswer
    /\ client = ClientInit

(***************************************************************************)
(* uploadHandler, lines 86-97: the checks made before validateFile.        *)
(***************************************************************************)
\* the same checks with the empty-buffer check left out
preCheck_NoEmptyCheck(f) ==
    IF ~f.attached THEN "No file provided"
    ELSE IF f.size > maxSize THEN "File size exceeds 100MB limit"
    ELSE "none"

\* the same checks with a file of exactly 100 MB refused as well
preCheck_SizeInclusive(f) ==
    IF ~f.attached THEN "No file provided"
    ELSE IF f.length = 0 THEN "File is empty or invalid"
    ELSE IF f.size >= maxSize THEN "File size exceeds 100MB limit"
    ELSE "none"

preCheck(f) ==
    IF ~f.attached THEN "No file provided"
    ELSE IF f.length = 0 THEN "File is empty or invalid"
    ELSE IF f.size > maxSize THEN "File size exceeds 100MB limit"
    ELSE "none"

\* the criticality branch answering 403 without creating the alert
alertsAfterValidation_NoAlert(as, user, f, v) == as

\* lines 126-199: the Alert collection after the criticality branch
alertsAfterValidation(as, user, f, v) ==
    IF shouldReject(v) THEN Append(as, validationAlert(user, f, v)) ELSE as

\* lines 248-290: the Alert collection after the branch that follows callIDS
alertsAfterIds(as, user, f, v, idsResult) ==
    IF blockedAfterIds(v, idsResult)
    THEN Append(as, idsAlert(user, f, v, idsResult)) ELSE as

\* the blocked branch falling through to Transfer.create (a missing return)
transfersAfterIds_FallThrough(ts, user, f, v, idsResult) ==
    Append(ts, transferDoc(user, f, idsResult))

\* lines 248-302: the Transfer collection after the branch that follows callIDS
transfersAfterIds(ts, user, f, v, idsResult) ==
    IF blockedAfterIds(v, idsResult)
    THEN ts ELSE Append(ts, transferDoc(user, f, idsResult))

(***************************************************************************)
(* uploadHandler, from the request to its response or to the oracle call.  *)
(***************************************************************************)
UploadStart(user, f) ==
    /\ Len(reqs) < MaxUploads
    /\ UNCHANGED <<classifyVars, handshakeVars, anon, client>>
    /\ LET r == NewRequest(user, f)
           v == Validation[f]
       IN  IF preCheck(f) # "none"
           THEN /\ reqs' = Append(reqs, [r EXCEPT !.status = 400,
                                                  !.error = preCheck(f)])
                /\ UNCHANGED <<alerts, transfers>>
           ELSE /\ alerts' = alertsAfterValidation(alerts, user, f, v)
                /\ UNCHANGED transfers
                /\ IF shouldReject(v)
                   THEN \E ws \in WsOutcomes :
                        reqs' = Append(reqs,
                            [r EXCEPT !.validated = TRUE,
                                      !.ws = ws,
                                      !.delivered =
                                          IF ws = "sent"
                                          THEN wsRecipients(user, WsClients)
                                          ELSE {},
                                      !.status = 403,
                                      !.bodyStatus = "corrupted",
                                      !.error = "File upload blocked",
                                      !.alertsMade = Len(alerts') - Len(alerts)])
                   ELSE reqs' = Append(reqs,
                            [r EXCEPT !.validated = TRUE,
                                      !.pc = "ids",
                                      !.idsCalled = TRUE])

(***************************************************************************)
(* uploadHandler, from the return (or failure) of callIDS to the response. *)
(***************************************************************************)
UploadIdsDone(i, reply) ==
    /\ i \in 1..Len(reqs)
    /\ reqs[i].pc = "ids"
    /\ UNCHANGED <<classifyVars, handshakeVars, anon, client>>
    /\ LET r == reqs[i]
           v == Validation[r.file]
           idsResult == idsResultOf(v, reply)
       IN  /\ alerts' = alertsAfterIds(alerts, r.user, r.file, v, idsResult)
           /\ transfers' = transfersAfterIds(transfers, r.user, r.file, v, idsResult)
           /\ reqs' = [reqs EXCEPT ![i] =
                  [r EXCEPT !.pc = "done", !.reply = reply,
                            !.idsResult = idsResult,
                            !.status = IF blockedAfterIds(v, idsResult)
                                       THEN 403 ELSE 200,
                            !.bodyStatus =
                                IF ~blockedAfterIds(v, idsResult) THEN "normal"
                                ELSE IF v.isCorrupted THEN "corrupted"
                                ELSE "suspicious",
                            !.error = IF blockedAfterIds(v, idsResult)
                                      THEN "File upload blocked" ELSE "none",
                            !.alertsMade = Len(alerts') - Len(alerts),
                            !.transfersMade = Len(transfers') - Len(transfers)]]

(***************************************************************************)
(* A database call that throws: the handler's catch answers 500 (lines     *)
(* 315-318) and the record is not created.                                 *)
(***************************************************************************)
UploadStartDbFails(user, f) ==
    /\ Len(reqs) < MaxUploads
    /\ preCheck(f) = "none"
    /\ shouldReject(Validation[f])
    /\ reqs' = Append(reqs, [NewRequest(user, f) EXCEPT
                                !.validated = TRUE, !.status = 500,
                                !.error = "File upload failed",
                                !.dbFailed = TRUE])
    /\ UNCHANGED <<alerts, transfers, classifyVars, handshakeVars, anon, client>>

UploadIdsDbFails(i, reply) ==
    /\ i \in 1..Len(reqs)
    /\ reqs[i].pc = "ids"
    /\ reqs' = [reqs EXCEPT ![i] =
           [reqs[i] EXCEPT !.pc = "done", !.reply = reply,
                           !.idsResult = idsResultOf(Validation[reqs[i].file], reply),
                           !.status = 500, !.error = "File upload failed",
                           !.dbFailed = TRUE]]
    /\ UNCHANGED <<alerts, transfers, classifyVars, handshakeVars, anon, client>>

Next ==
    \/ \E f \in UploadInputs : UploadStart("alice", f)
    \/ \E i \in 1..MaxUploads, reply \in IdsReplies : UploadIdsDone(i, reply)

Spec == Init /\ [][Next]_vars

\* the uploads tried when database calls may fail
FaultInputs ==
    {f \in UploadInputs :
        \/ f.buf \in {"empty", "text38", "random2048", "varied64", "jpegNoEnd"}
        \/ f.buf = "pngCut" /\ f.name = NoName}

FaultNext ==
    \/ \E user \in Users, f \in FaultInputs : UploadStart(user, f)
    \/ \E i \in 1..MaxUploads, reply \in IdsReplies : UploadIdsDone(i, reply)
    \/ \E user \in Users, f \in FaultInputs : UploadStartDbFails(user, f)
    \/ \E i \in 1..MaxUploads, reply \in IdsReplies : UploadIdsDbFails(i, reply)

FaultSpec == Init /\ [][FaultNext]_vars

(***************************************************************************)
(* Properties of the upload gate.                                          *)
(***************************************************************************)
Finished(i) == reqs[i].pc = "done"

LevelOf(i) == Validation[reqs[i].file].criticalityLevel

Rejected(i) ==
    /\ reqs[i].status = 403
    /\ reqs[i].alertsMade = 1
    /\ reqs[i].transfersMade = 0

Accepted(i) ==
    /\ reqs[i].status = 200
    /\ reqs[i].alertsMade = 0
    /\ reqs[i].transfersMade = 1

\* an upload with a non-empty buffer of at most 100 MB and no failed database call
Regular(i) ==
    /\ reqs[i].file.attached
    /\ reqs[i].file.length > 0
    /\ reqs[i].file.size <= maxSize
    /\ ~reqs[i].dbFailed

\* C1: every finished upload with a non-empty buffer of at most 100 MB and no
\* failed database call created exactly one record, an Alert with 403 or a
\* Transfer with 200, and the two collections together hold as many records
\* as there are such uploads.
C1_OneRecordPerUpload ==
    /\ \A i \in 1..Len(reqs) :
          Finished(i) /\ Regular(i) => Rejected(i) \/ Accepted(i)
    /\ Len(alerts) + Len(transfers) =
          Cardinality({i \in 1..Len(reqs) : Finished(i) /\ Regular(i)})

C1_Witness ==
    /\ \E i, j \in 1..Len(reqs) :
          /\ Finished(i) /\ Regular(i) /\ Rejected(i)
          /\ Finished(j) /\ Regular(j) /\ Accepted(j)
    /\ Len(alerts) = 1
    /\ Len(transfers) = 1

\* the score the fusion rule of the specification compares with the threshold
CombinedScore(i) ==
    Max(Validation[reqs[i].file].riskScore,
        IF ~reqs[i].idsCalled THEN 0
        ELSE IF reqs[i].reply = IdsDown THEN ConservativeFloor
        ELSE reqs[i].reply.anomaly_score)

Decided(i) == Finished(i) /\ reqs[i].status \in {200, 403}

ContainsBytes(buf, marker) ==
    \E k \in 0..(Len(buf) - Len(marker)) :
        \A t \in 1..Len(marker) : buf[k + t] = marker[t]

\* the buffers that start with the PNG signature and hold no IEND chunk
TruncatedPngs ==
    {id \in BufferIds :
        /\ SignatureMatches(Bytes(id), PNG_START)
        /\ ~ContainsBytes(Bytes(id), <<73, 69, 78, 68>>)}

\* C7: every upload of a PNG truncated before IEND is answered 403 with one
\* alert and no Transfer, whatever its file name and the oracle's reply.
C7_TruncatedPngRejected ==
    \A i \in 1..Len(reqs) :
        /\ reqs[i].file.attached
        /\ reqs[i].file.buf \in TruncatedPngs
        /\ Finished(i)
        => Rejected(i)

\* C9: the short plain-text uploads of the tests (valid.txt, test_normal.txt)
\* are answered 200 with one Transfer and no alert.
C9_PlainTextAccepted ==
    \A i \in 1..Len(reqs) :
        /\ reqs[i].file.buf \in {"text38", "text54"}
        /\ Finished(i)
        => Accepted(i)

\* C10: an upload with a zero-length buffer is answered 400; validateFile and
\* the oracle are not called and no Alert or Transfer is created.
C10_EmptyIsHardError ==
    \A i \in 1..Len(reqs) :
        reqs[i].file.attached /\ reqs[i].file.length = 0 =>
            /\ Finished(i)
            /\ reqs[i].status = 400
            /\ reqs[i].error = "File is empty or invalid"
            /\ ~reqs[i].validated
            /\ ~reqs[i].idsCalled
            /\ reqs[i].alertsMade = 0
            /\ reqs[i].transfersMade = 0

C10_Witness ==
    \E i \in 1..Len(reqs) :
        /\ reqs[i].file.attached
        /\ reqs[i].file.length = 0
        /\ reqs[i].status = 400
        /\ alerts = <<>>
        /\ transfers = <<>>

(***************************************************************************)
(* validateFile called on its own, on buffers of every entropy band under  *)
(* every kind of file name and parser outcome.                             *)
(***************************************************************************)
ClassifyBuffers ==
    {"text38", "dyadic32", "allAA64", "varied64", "jpegBroken", "jpegNoEnd", "jpegNoEndHigh",
     "jpegNoEndRandom", "jpegWhole", "pngCut", "pngWhole", "pdfWhole",
     "zipVaried"}

ClassifyNames ==
    {NoName, Name(<<"">>), Name(<<"photo", "jpg">>), Name(<<"photo", "JPG">>),
     Name(<<"notes", "txt">>), Name(<<"image", "png">>)}

ClassifyInputs ==
    [buf : ClassifyBuffers, name : ClassifyNames,
     parse : {"ok", "throws"}, varHigh : BOOLEAN]

ClassifyInit ==
    /\ UploadInit
    /\ HandshakeInit
    /\ anon = NoAnswer
    /\ client = ClientInit
    /\ input \in ClassifyInputs
    /\ assessment = NotAssessed

\* what validateFile computes from each input, as an explicit table
Assessments ==
    [i \in ClassifyInputs |->
        validateFile(Bytes(i.buf), i.name, i.parse, i.varHigh)] @@ <<>>

MaxClassifyCalls == 3

\* the inputs of the calls that follow the first one
AgainInputs ==
    {[buf |-> "text38", name |-> Name(<<"notes", "txt">>), parse |-> "ok",
      varHigh |-> FALSE],
     [buf |-> "jpegNoEnd", name |-> Name(<<"image", "png">>), parse |-> "throws",
      varHigh |-> TRUE],
     [buf |-> "pngWhole", name |-> NoName, parse |-> "ok", varHigh |-> FALSE]}

\* a validation object kept between the calls, its issues list growing
newValidation_Shared(previous) ==
    [issues |-> IF previous.assessed THEN previous.result.issues ELSE <<>>]

\* validateFile builds a new validation object in every call
newValidation(previous) == [issues |-> <<>>]

\* one call of validateFile, after the calls that left `previous`
validateFileCall(previous, i) ==
    [Assessments[i] EXCEPT !.issues = newValidation(previous).issues \o @]

Classify ==
    /\ ~assessment.assessed
    /\ LET result == validateFileCall(assessment, input)
       IN  assessment' = [assessed |-> TRUE, result |-> result,
                          history |-> <<[input |-> input, result |-> result]>>]
    /\ UNCHANGED <<input, uploadVars, handshakeVars, anon, client>>

\* a later call, on the first call's input or on another one
ClassifyAgain(i) ==
    /\ assessment.assessed
    /\ Len(assessment.history) < MaxClassifyCalls
    /\ input' = i
    /\ LET result == validateFileCall(assessment, i)
       IN  assessment' = [assessed |-> TRUE, result |-> result,
                          history |-> Append(assessment.history,
                                             [input |-> i, result |-> result])]
    /\ UNCHANGED <<uploadVars, handshakeVars, anon, client>>

ClassifyNext ==
    \/ Classify
    \/ /\ assessment.assessed
       /\ \E i \in AgainInputs \cup {assessment.history[1].input} :
              ClassifyAgain(i)

ClassifySpec == ClassifyInit /\ [][ClassifyNext]_vars

\* the buffer begins with the JPEG signature and does not end with FF D9
JpegWithoutEnd(buf) ==
    /\ SignatureMatches(buf, <<255, 216, 255>>)
    /\ LastBytes(buf, 2) # <<255, 217>>

StructureFails ==
    \/ JpegWithoutEnd(Bytes(input.buf))
    \/ checkFileStructure(Bytes(input.buf), input.name, input.parse) # <<>>

\* C8: when a structural check fails, in particular for a buffer with the
\* JPEG signature and no FF D9 at its end, the assessment is marked corrupted
\* and its criticalityLevel is at least 2, in every entropy band.
C8_StructureForcesLevel ==
    assessment.assessed /\ StructureFails =>
        /\ assessment.result.isCorrupted
        /\ assessment.result.criticalityLevel >= 2

(***************************************************************************)
(* The handshake.  initHandshake and validateHandshake follow sections 4.1 *)
(* and 4.3 and section 5 of the specification: a keyed store of sessions   *)
(* with a check-and-set transition out of PENDING.  The routes are those   *)
(* of api.js (lines 325-355) and the caller is ApiClient.validateHandshake. *)
(***************************************************************************)
MaxSessions == 2

MaxCalls == 2

MaxLogs == 4

InitRoutes == {"/handshake/init", "/handshake"}

ValidateRoutes == {"/handshake/validate", "/handshake/verify"}

HandshakeReplies ==
    {[anomaly_score |-> 10, verdict |-> "normal"],
     [anomaly_score |-> 90, verdict |-> "normal"],
     [anomaly_score |-> 10, verdict |-> "suspicious"],
     IdsDown}

NoKey == "none"

NewSession == [state |-> "PENDING", key |-> NoKey, derivations |-> 0, released |-> 0]

\* section 4.3: signature validity as the local risk of a handshake
localProxy(sigOk) == IF sigOk THEN 0 ELSE 100

\* section 4.1: an unreachable oracle is elevated risk, not a rejection
handshakeFloor == AcceptThreshold

\* section 4.3: the fusion decision of a handshake
handshakeOutcome(sigOk, reply) ==
    LET oracleScore == IF reply = IdsDown THEN handshakeFloor
                       ELSE reply.anomaly_score
        combinedScore == Max(localProxy(sigOk), oracleScore)
    IN  IF combinedScore > AcceptThreshold \/ reply.verdict = "suspicious"
        THEN "REJECT" ELSE "ACCEPT"

\* a store that writes whatever the current state is
compareAndSet_Blind(current, expected, new) == [ok |-> TRUE, state |-> new]

\* section 5: the atomic check-and-set of a session's state
compareAndSet(current, expected, new) ==
    IF current = expected THEN [ok |-> TRUE, state |-> new]
    ELSE [ok |-> FALSE, state |-> current]

\* a validate with one error for every session that is not PENDING
requirePending_Uniform(state) ==
    IF state = "PENDING" THEN "none" ELSE "InvalidSessionState"

\* a validate that accepts a session in any state
requirePending_AnyState(state) == "none"

\* section 4.1: validate requires state == PENDING
requirePending(state) ==
    IF state = "PENDING" THEN "none"
    ELSE IF state = "EXPIRED" THEN "SessionExpired"
    ELSE "InvalidSessionState"

\* section 7: protocol misuse is answered with a distinguishing code; the
\* unknown id is the 404 that testWrongHandshakeId expects
httpStatus(err) ==
    IF err = "none" THEN 200
    ELSE IF err = "SessionNotFound" THEN 404
    ELSE 400

NoData == [verified |-> FALSE, sessionKey |-> NoKey, verdict |-> "none"]

NoClient == [status |-> "none", sessionKey |-> NoKey]

\* a caller that reports every answer as secure
validateHandshake_AlwaysSecure(data) ==
    [status |-> "secure", sessionKey |-> data.sessionKey]

\* ApiClient.validateHandshake: what the caller makes of a 2xx answer
validateHandshake(data) ==
    [status |-> IF data.verified /\ data.verdict # "suspicious"
                THEN "secure" ELSE "suspicious",
     sessionKey |-> data.sessionKey]

NewCall(id, route, sigOk) ==
    [id |-> id, route |-> route, sigOk |-> sigOk, pc |-> "done",
     startState |-> "unknown", error |-> "none", outcome |-> "none",
     status |-> 0, logs |-> 0,
     transitioned |-> FALSE, data |-> NoData, client |-> NoClient]

keyOf(id) == "key" \o ToString(id)

\* a transition that leaves the derived key with the session
keyAfter_Kept(outcome, id) == keyOf(id)

\* section 3: derivedSessionKey is present only after VALIDATED and erased
\* on FAILED
keyAfter(outcome, id) == IF outcome = "ACCEPT" THEN keyOf(id) ELSE NoKey

\* an id generator that hands out the same id again
newHandshakeId_Fixed(ss) == 1

\* section 3: handshakeId is generated at INIT and was never seen before
newHandshakeId(ss) == Len(ss) + 1

\* an init that creates the session before looking at the key
sessionsAfterInit_Unchecked(ss, id, keyOk) ==
    IF id \in 1..Len(ss) THEN [ss EXCEPT ![id] = NewSession]
    ELSE Append(ss, NewSession)

\* section 4.1, init: a PENDING session under the new id for a well-formed
\* key, no session for a malformed one
sessionsAfterInit(ss, id, keyOk) ==
    IF ~keyOk THEN ss
    ELSE IF id \in 1..Len(ss) THEN [ss EXCEPT ![id] = NewSession]
    ELSE Append(ss, NewSession)

\* lines 325-332 and 354: only POST /handshake/init writes the 'pending'
\* ConnectionLog before it calls initHandshake
initLogs(logs, route) ==
    IF route = "/handshake/init" THEN logged(logs, "pending") ELSE logs

\* what the server knows of a handshakeId when a call looks it up
Lookup(id) == IF id \in 1..Len(sessions) THEN sessions[id].state ELSE "unknown"

(***************************************************************************)
(* POST /handshake/init (lines 325-332) and the legacy POST /handshake     *)
(* (line 354): the first writes a 'pending' ConnectionLog, both call       *)
(* initHandshake, which creates a PENDING session for a well-formed key.   *)
(***************************************************************************)
HandshakeInitCall(route, keyOk) ==
    /\ logCount(connLogs) < MaxLogs
    /\ keyOk => Len(sessions) < MaxSessions
    /\ LET logs == initLogs(connLogs, route)
           id == newHandshakeId(sessions)
       IN  /\ connLogs' = logs
           /\ sessions' = sessionsAfterInit(sessions, id, keyOk)
           /\ lastInit' =
                  IF keyOk
                  THEN [route |-> route, status |-> 200, handshakeId |-> id,
                        error |-> "none",
                        logs |-> logCount(logs) - logCount(connLogs)]
                  ELSE [route |-> route, status |-> 400, handshakeId |-> 0,
                        error |-> "InvalidKeyMaterial",
                        logs |-> logCount(logs) - logCount(connLogs)]
    /\ UNCHANGED <<calls, uploadVars, classifyVars, anon, client>>

(***************************************************************************)
(* POST /handshake/validate (lines 334-351) and the legacy POST            *)
(* /handshake/verify (line 355), up to the call of the oracle: the session *)
(* is looked up, must be PENDING, the key is derived.                      *)
(***************************************************************************)
ValidateStart(id, route, sigOk) ==
    /\ Len(calls) < MaxCalls
    /\ LET st == Lookup(id)
           err == IF st = "unknown" THEN "SessionNotFound" ELSE requirePending(st)
           call == [NewCall(id, route, sigOk) EXCEPT !.startState = st]
       IN  IF err # "none"
           THEN /\ calls' = Append(calls, [call EXCEPT !.error = err,
                                                        !.status = httpStatus(err),
                                                        !.logs = 1])
                /\ connLogs' = logged(connLogs, "failed")
                /\ UNCHANGED sessions
           ELSE /\ calls' = Append(calls, [call EXCEPT !.pc = "oracle"])
                /\ sessions' = [sessions EXCEPT ![id].derivations = @ + 1]
                /\ UNCHANGED connLogs
    /\ UNCHANGED <<lastInit, uploadVars, classifyVars, anon, client>>

(***************************************************************************)
(* validateHandshake from the oracle's answer (or failure) to the          *)
(* response: the fusion decision, the check-and-set out of PENDING, the    *)
(* release or erasure of the key, the ConnectionLog.                       *)
(***************************************************************************)
ValidateOracleDone(c, reply) ==
    /\ c \in 1..Len(calls)
    /\ calls[c].pc = "oracle"
    /\ LET call == calls[c]
           id == call.id
           outcome == handshakeOutcome(call.sigOk, reply)
           target == IF outcome = "ACCEPT" THEN "VALIDATED" ELSE "FAILED"
           cas == compareAndSet(sessions[id].state, "PENDING", target)
           data == IF outcome = "ACCEPT"
                   THEN [verified |-> TRUE, sessionKey |-> keyOf(id),
                         verdict |-> reply.verdict]
                   ELSE [verified |-> FALSE, sessionKey |-> NoKey,
                         verdict |-> reply.verdict]
       IN  IF cas.ok
           THEN /\ sessions' = [sessions EXCEPT ![id] =
                       [sessions[id] EXCEPT
                           !.state = cas.state,
                           !.key = keyAfter(outcome, id),
                           !.released = IF outcome = "ACCEPT" THEN @ + 1 ELSE @]]
                /\ calls' = [calls EXCEPT ![c] =
                       [call EXCEPT
                           !.pc = "done", !.outcome = outcome,
                           !.status = 200, !.logs = 1,
                           !.transitioned = TRUE, !.data = data,
                           !.client = IF call.route = "/handshake/validate"
                                      THEN validateHandshake(data)
                                      ELSE NoClient]]
                /\ connLogs' = logged(connLogs,
                       IF outcome = "ACCEPT" THEN "success" ELSE "failed")
           ELSE /\ calls' = [calls EXCEPT ![c] =
                       [call EXCEPT !.pc = "done", !.outcome = outcome,
                                    !.status = httpStatus(requirePending(cas.state)),
                                    !.logs = 1,
                                    !.error = requirePending(cas.state)]]
                /\ connLogs' = logged(connLogs, "failed")
                /\ UNCHANGED sessions
    /\ UNCHANGED <<lastInit, uploadVars, classifyVars, anon, client>>

\* section 4.1, expiry: a PENDING session older than the timeout
Expire(id) ==
    /\ id \in 1..Len(sessions)
    /\ sessions[id].state = "PENDING"
    /\ sessions' = [sessions EXCEPT ![id].state = "EXPIRED", ![id].key = NoKey]
    /\ UNCHANGED <<calls, connLogs, lastInit, uploadVars, classifyVars, anon, client>>

HandshakeNext ==
    \/ \E route \in InitRoutes, keyOk \in BOOLEAN : HandshakeInitCall(route, keyOk)
    \/ \E id \in 1..(MaxSessions + 1), route \in ValidateRoutes, sigOk \in BOOLEAN :
          ValidateStart(id, route, sigOk)
    \/ \E c \in 1..MaxCalls, reply \in HandshakeReplies : ValidateOracleDone(c, reply)
    \/ \E id \in 1..MaxSessions : Expire(id)

HandshakeSpec == Init /\ [][HandshakeNext]_vars

(***************************************************************************)
(* Handlers that throw.  In uploadHandler validateFile is awaited inside   *)
(* the try block, whose catch answers 500 (lines 99-106, 315-318).  The    *)
(* wrapper of POST /handshake/validate awaits validateHandshake in a try   *)
(* whose catch writes a 'failed' ConnectionLog and sends nothing (lines    *)
(* 334-351).                                                               *)
(***************************************************************************)
UploadValidateThrows(user, f) ==
    /\ Len(reqs) < MaxUploads
    /\ preCheck(f) = "none"
    /\ reqs' = Append(reqs, [NewRequest(user, f) EXCEPT
                                !.status = 500,
                                !.error = "File upload failed"])
    /\ UNCHANGED <<alerts, transfers, classifyVars, handshakeVars, anon, client>>

\* validateHandshake throws before it has sent a response
ValidateThrows(id) ==
    /\ Len(calls) < MaxCalls
    /\ calls' = Append(calls,
           [NewCall(id, "/handshake/validate", TRUE) EXCEPT
               !.startState = Lookup(id), !.error = "thrown", !.logs = 1])
    /\ connLogs' = logged(connLogs, "failed")
    /\ UNCHANGED <<sessions, lastInit, uploadVars, classifyVars, anon, client>>

\* the uploads tried next to handlers that throw
ThrowInputs ==
    {f \in UploadInputs : f.buf \in {"text38", "varied64"}}

ThrowNext ==
    \/ \E f \in ThrowInputs : UploadStart("alice", f)
    \/ \E i \in 1..MaxUploads, reply \in {IdsDown, CHOOSE r \in IdsReplies : r.verdict = "normal"} :
          UploadIdsDone(i, reply)
    \/ \E f \in ThrowInputs : UploadStartDbFails("alice", f)
    \/ \E i \in 1..MaxUploads : UploadIdsDbFails(i, IdsDown)
    \/ \E f \in ThrowInputs : UploadValidateThrows("alice", f)
    \/ HandshakeInitCall("/handshake/init", TRUE)
    \/ \E id \in 1..MaxSessions : ValidateStart(id, "/handshake/validate", TRUE)
    \/ \E c \in 1..MaxCalls, reply \in HandshakeReplies : ValidateOracleDone(c, reply)
    \/ \E id \in 1..MaxSessions : ValidateThrows(id)

ThrowSpec == Init /\ [][ThrowNext]_vars

(***************************************************************************)
(* The router (api.js lines 18-355): every route is registered with        *)
(* requireAuth as its first middleware.  requireAuth answers 401 to a      *)
(* request without a valid token and does not call the next middleware.    *)
(***************************************************************************)
Router ==
    [r \in {"GET /alerts", "GET /alerts/:id", "PATCH /alerts/:id/resolve",
            "GET /logs/connections", "GET /logs/transfers"} |->
        <<"requireAuth", "handler">>]
    @@ [r \in {"POST /files/upload", "POST /upload"} |->
        <<"requireAuth", "upload.single", "uploadHandler">>]
    @@ [r \in {"POST /handshake/init"} |-> <<"requireAuth", "logAndInit">>]
    @@ [r \in {"POST /handshake/validate"} |-> <<"requireAuth", "validateAndLog">>]
    @@ [r \in {"POST /handshake"} |-> <<"requireAuth", "initHandshake">>]
    @@ [r \in {"POST /handshake/verify"} |-> <<"requireAuth", "validateHandshake">>]

ApiRoutes == DOMAIN Router

\* a router whose legacy init route is registered without requireAuth
chainOf_LegacyOpen(route) ==
    IF route = "POST /handshake" THEN <<"initHandshake">> ELSE Router[route]

chainOf(route) == Router[route]

\* a request without a valid token: requireAuth answers 401 and ends the
\* chain; a chain without it runs its handler
AnonymousRequest(route) ==
    LET chain == chainOf(route)
    IN  IF chain[1] = "requireAuth"
        THEN /\ anon' = [route |-> route, status |-> 401]
             /\ UNCHANGED <<uploadVars, classifyVars, handshakeVars, client>>
        ELSE /\ anon' = [route |-> route, status |-> 200]
             /\ sessions' = IF chain[1] = "initHandshake" /\ Len(sessions) < MaxSessions
                            THEN Append(sessions, NewSession) ELSE sessions
             /\ UNCHANGED <<calls, connLogs, lastInit, uploadVars, classifyVars,
                             client>>

\* the uploads tried next to requests without a token
AuthInputs ==
    {f \in UploadInputs : f.buf \in {"empty", "varied64", "random2048"}}

AuthNext ==
    \/ \E route \in ApiRoutes : AnonymousRequest(route)
    \/ \E f \in AuthInputs : UploadStart("alice", f)
    \/ \E i \in 1..MaxUploads, reply \in IdsReplies : UploadIdsDone(i, reply)
    \/ \E route \in InitRoutes, keyOk \in BOOLEAN : HandshakeInitCall(route, keyOk)

AuthSpec == Init /\ [][AuthNext]_vars

(***************************************************************************)
(* Properties of the handshake.                                            *)
(***************************************************************************)
LeftPending(id) == sessions[id].state \in {"VALIDATED", "FAILED", "EXPIRED"}

\* the calls that finish in this step (answered at once, or after the oracle)
FinishesNow(c) ==
    /\ c \in 1..Len(calls')
    /\ calls'[c].pc = "done"
    /\ c \in 1..Len(calls) => calls[c].pc # "done"

C2_Step ==
    \A id \in 1..Len(sessions) :
        LeftPending(id) =>
            /\ sessions'[id] = sessions[id]
            /\ \A c \in 1..MaxCalls :
                  FinishesNow(c) /\ calls'[c].id = id =>
                      /\ calls'[c].error =
                             IF sessions[id].state = "EXPIRED"
                             THEN "SessionExpired" ELSE "InvalidSessionState"
                      /\ ~calls'[c].transitioned
                      /\ calls'[c].data.sessionKey = NoKey

\* C2: once a session is VALIDATED, FAILED or EXPIRED, no step changes its
\* state, derives its key again or releases a key, and every validate call
\* answered from then on, on either route, fails with InvalidSessionState
\* (SessionExpired for an expired session).
C2_ValidateOnlyFromPending == [][C2_Step]_vars

C2_Witness ==
    \E c1, c2 \in 1..Len(calls) :
        /\ c1 # c2
        /\ calls[c1].id = calls[c2].id
        /\ calls[c1].transitioned
        /\ calls[c1].outcome = "ACCEPT"
        /\ calls[c2].route = "/handshake/verify"
        /\ calls[c2].startState = "VALIDATED"
        /\ calls[c2].error = "InvalidSessionState"
        /\ sessions[calls[c1].id].derivations = 1
        /\ sessions[calls[c1].id].released = 1

CallsOn(id) == {c \in 1..Len(calls) : calls[c].id = id /\ calls[c].startState = "PENDING"}

\* C3: of the validate calls that found the same session PENDING at most one
\* performs the transition; once one has, every other that is answered
\* observes InvalidSessionState, and the key is released at most once.
C3_AtMostOneWinner ==
    \A id \in 1..Len(sessions) :
        /\ Cardinality({c \in CallsOn(id) : calls[c].transitioned}) <= 1
        /\ Cardinality({c \in CallsOn(id) : calls[c].data.sessionKey # NoKey}) <= 1
        /\ sessions[id].released <= 1
        /\ \A c1, c2 \in CallsOn(id) :
              /\ c1 # c2
              /\ calls[c1].transitioned
              /\ calls[c2].pc = "done"
              => /\ calls[c2].error = "InvalidSessionState"
                 /\ calls[c2].data.sessionKey = NoKey

C3_Witness ==
    \E id \in 1..Len(sessions) :
        \E c1, c2 \in CallsOn(id) :
            /\ c1 # c2
            /\ calls[c1].transitioned
            /\ calls[c1].data.sessionKey = keyOf(id)
            /\ calls[c2].pc = "done"
            /\ calls[c2].outcome = "ACCEPT"
            /\ calls[c2].error = "InvalidSessionState"
            /\ sessions[id].released = 1

Answered(c) == calls[c].pc = "done" /\ calls[c].id \in 1..Len(sessions)

\* C5: a validate call hands a session key to its caller only when its
\* fusion outcome is ACCEPT and it moved the session to VALIDATED; a call
\* whose outcome is REJECT leaves the session FAILED, and its caller gets the
\* status "suspicious" and no key.
C5_KeyOnlyOnAccept ==
    \A c \in 1..Len(calls) :
        /\ calls[c].data.sessionKey # NoKey \/ calls[c].client.sessionKey # NoKey
           => /\ calls[c].outcome = "ACCEPT"
              /\ calls[c].transitioned
              /\ sessions[calls[c].id].state = "VALIDATED"
        /\ Answered(c) /\ calls[c].outcome = "REJECT" /\ calls[c].error = "none"
           => /\ sessions[calls[c].id].state = "FAILED"
              /\ calls[c].data.sessionKey = NoKey
              /\ calls[c].route = "/handshake/validate" =>
                    /\ calls[c].client.status = "suspicious"
                    /\ calls[c].client.sessionKey = NoKey

C5_Witness ==
    \E c1, c2 \in 1..Len(calls) :
        /\ calls[c1].route = "/handshake/validate"
        /\ calls[c1].outcome = "REJECT"
        /\ calls[c1].transitioned
        /\ calls[c1].client = [status |-> "suspicious", sessionKey |-> NoKey]
        /\ sessions[calls[c1].id].state = "FAILED"
        /\ calls[c2].route = "/handshake/validate"
        /\ calls[c2].outcome = "ACCEPT"
        /\ calls[c2].client = [status |-> "secure", sessionKey |-> keyOf(calls[c2].id)]
        /\ sessions[calls[c2].id].state = "VALIDATED"

(***************************************************************************)
(* Further properties of the upload gate.                                  *)
(***************************************************************************)
SafeToStore(v, idsResult) ==
    /\ v.criticalityLevel < 2
    /\ v.criticalityLevel # NoLevel
    /\ ~v.isCorrupted
    /\ Len(v.issues) = 1
    /\ v.riskScore <= AcceptThreshold
    /\ idsResult.verdict # "suspicious"

\* C11: a Transfer record exists only for an upload whose level is below 2,
\* whose validation result is not corrupted and carries no corruption or
\* structure issue, whose riskScore is at most 0.5 and whose final oracle
\* result is not "suspicious"; every stored record belongs to such an upload.
C11_OnlySafeStored ==
    /\ \A i \in 1..Len(reqs) :
          reqs[i].transfersMade > 0 =>
              SafeToStore(Validation[reqs[i].file], reqs[i].idsResult)
    /\ \A t \in 1..Len(transfers) :
          \E i \in 1..Len(reqs) :
              /\ reqs[i].transfersMade = 1
              /\ transfers[t] = transferDoc(reqs[i].user, reqs[i].file, reqs[i].idsResult)

C11_Witness ==
    /\ Len(transfers) = 1
    /\ transfers[1].filename = Name(<<"notes", "txt">>)
    /\ transfers[1].ids_result.verdict = "normal"
    /\ \E i, j \in 1..Len(reqs) :
          /\ reqs[i].transfersMade = 1
          /\ reqs[j].file.buf = "jpegNoEnd"
          /\ reqs[j].reply.verdict = "normal"
          /\ reqs[j].transfersMade = 0
          /\ reqs[j].status = 403

OracleFailed(i) == reqs[i].idsCalled /\ Finished(i) /\ reqs[i].reply = IdsDown

CalmReply == [anomaly_score |-> 10, verdict |-> "normal"]

UnavailableMarkers ==
    {"IDS service unavailable",
     "IDS service unavailable but file validation detected issues"}

\* C13: an upload whose oracle call failed, and whose database calls did
\* not, is never answered 500: it ends in 403 with one alert or in 200 with
\* one Transfer, and the idsResult kept with the outcome says that the oracle
\* was unavailable.
C13_OracleFailureAbsorbed ==
    \A i \in 1..Len(reqs) :
        OracleFailed(i) /\ ~reqs[i].dbFailed =>
            /\ reqs[i].status # 500
            /\ Rejected(i) \/ Accepted(i)
            /\ reqs[i].idsResult.error \in UnavailableMarkers
            /\ \/ \E a \in 1..Len(alerts) :
                     /\ alerts[a].userId = reqs[i].user
                     /\ alerts[a].ids = reqs[i].idsResult
               \/ \E t \in 1..Len(transfers) :
                     /\ transfers[t].userId = reqs[i].user
                     /\ transfers[t].ids_result = reqs[i].idsResult

C13_Witness ==
    \E i, j \in 1..Len(reqs) :
        /\ OracleFailed(i) /\ ~reqs[i].dbFailed
        /\ reqs[i].user = "bob"
        /\ reqs[i].status = 403
        /\ reqs[i].idsResult.error = "IDS service unavailable"
        /\ OracleFailed(j) /\ reqs[j].dbFailed
        /\ reqs[j].status = 500

(***************************************************************************)
(* Further properties of the handshake.                                    *)
(***************************************************************************)
KeyOnlyWhenValidated ==
    \A id \in 1..Len(sessions) :
        /\ sessions[id].key # NoKey => sessions[id].state = "VALIDATED"
        /\ sessions[id].state # "VALIDATED" => sessions[id].released = 0

C14_Step ==
    \A id \in 1..Len(sessions) :
        sessions[id].state \in {"FAILED", "EXPIRED"} =>
            /\ sessions'[id].key = NoKey
            /\ sessions'[id].derivations = sessions[id].derivations
            /\ sessions'[id].released = 0
            /\ \A c \in 1..MaxCalls :
                  FinishesNow(c) /\ calls'[c].id = id =>
                      /\ calls'[c].data.sessionKey = NoKey
                      /\ calls'[c].client.sessionKey = NoKey

\* C14: a session holds a key only in state VALIDATED, and once a session is
\* FAILED or EXPIRED no step gives it a key, derives its key again or
\* answers a call with its key.
C14_KeyOnlyWhenValidated == [](KeyOnlyWhenValidated) /\ [][C14_Step]_vars

C14_Witness ==
    \E id1, id2 \in 1..Len(sessions) :
        /\ sessions[id1].state = "FAILED"
        /\ sessions[id1].key = NoKey
        /\ sessions[id1].derivations = 1
        /\ sessions[id2].state = "EXPIRED"
        /\ sessions[id2].derivations = 1
        /\ \E c \in 1..Len(calls) :
              /\ calls[c].id = id2
              /\ calls[c].startState = "PENDING"
              /\ calls[c].error = "SessionExpired"

\* an init request is answered in this step with a new session
InitCreates == lastInit' # lastInit /\ lastInit'.status = 200

C15_Step ==
    /\ Len(sessions') >= Len(sessions)
    /\ InitCreates =>
          /\ lastInit'.handshakeId \notin 1..Len(sessions)
          /\ lastInit'.handshakeId # lastInit.handshakeId
          /\ Len(sessions') = Len(sessions) + 1
          /\ lastInit'.handshakeId \in 1..Len(sessions')
          /\ sessions'[lastInit'.handshakeId] = NewSession
          /\ \A id \in 1..Len(sessions) : sessions'[id] = sessions[id]

\* C15: every init with a well-formed key, on either route and however often
\* repeated, answers with a handshakeId that no earlier init returned, adds
\* one PENDING session under it and leaves every existing session as it was.
C15_FreshHandshakeId == [][C15_Step]_vars

C15_Witness ==
    /\ Len(sessions) = 2
    /\ lastInit = [route |-> "/handshake/init", status |-> 200, handshakeId |-> 2,
                   error |-> "none", logs |-> 1]
    /\ sessions[1].state = "VALIDATED"
    /\ sessions[1].released = 1
    /\ sessions[2] = NewSession

C16_Step ==
    lastInit'.status = 400 /\ calls' = calls =>
        /\ lastInit'.error = "InvalidKeyMaterial"
        /\ lastInit'.handshakeId = 0
        /\ Len(sessions') = Len(sessions)
        /\ \A id \in 1..Len(sessions) :
              \/ sessions'[id] = sessions[id]
              \/ /\ sessions[id].state = "PENDING"
                 /\ sessions'[id] = [sessions[id] EXCEPT !.state = "EXPIRED"]

\* C16: an init with a malformed key is answered InvalidKeyMaterial without
\* a handshakeId, and the step creates no session and changes none (the only
\* other change of a session while that answer stands is an expiry).
C16_MalformedKeyRejected == [][C16_Step]_vars

C16_Witness ==
    /\ lastInit.error = "InvalidKeyMaterial"
    /\ lastInit.route = "/handshake/init"
    /\ lastInit.logs = 1
    /\ Len(sessions) = 1
    /\ sessions[1].state = "PENDING"
    /\ connLogs["pending"] = 2

C17_Step ==
    \A c \in 1..MaxCalls :
        FinishesNow(c) /\ calls'[c].error # "none" =>
            /\ sessions' = sessions
            /\ calls'[c].data = NoData
            /\ LET st == Lookup(calls'[c].id)
               IN  /\ st # "PENDING"
                   /\ st = "unknown" =>
                         calls'[c].error = "SessionNotFound" /\ calls'[c].status = 404
                   /\ st = "EXPIRED" =>
                         calls'[c].error = "SessionExpired" /\ calls'[c].status = 400
                   /\ st \in {"VALIDATED", "FAILED"} =>
                         calls'[c].error = "InvalidSessionState" /\ calls'[c].status = 400

\* C17: a validate call that fails is answered SessionNotFound (404) for an
\* unknown handshakeId, SessionExpired for an expired session and
\* InvalidSessionState for a VALIDATED or FAILED one, and the step that
\* answers it creates and changes no session.
C17_FailureCauses == [][C17_Step]_vars

C17_Witness ==
    \E c1, c2 \in 1..Len(calls) :
        /\ calls[c1].route = "/handshake/validate"
        /\ calls[c1].startState = "unknown"
        /\ calls[c1].error = "SessionNotFound"
        /\ calls[c1].status = 404
        /\ calls[c2].startState = "EXPIRED"
        /\ calls[c2].error = "SessionExpired"
        /\ sessions[calls[c2].id].state = "EXPIRED"

AttemptsMade ==
    (IF lastInit.status # 0 THEN 1 ELSE 0)
        + Cardinality({c \in 1..Len(calls) : calls[c].pc = "done"})

\* C18: every handshake attempt that was answered, init or validate, on the
\* current or the legacy route, produced exactly one ConnectionLog record.
C18_OneLogPerAttempt ==
    /\ lastInit.status # 0 => lastInit.logs = 1
    /\ \A c \in 1..Len(calls) : calls[c].pc = "done" => calls[c].logs = 1
    /\ logCount(connLogs) >= AttemptsMade

(***************************************************************************)
(* Properties of the router.                                               *)
(***************************************************************************)
C19_Step ==
    anon' # anon =>
        /\ anon'.route \in ApiRoutes
        /\ anon'.status = 401
        /\ UNCHANGED <<reqs, alerts, transfers, sessions, calls, connLogs, lastInit>>

\* C19: a request without a valid token is answered 401 on every route of
\* the router, and the step that answers it creates no Alert, Transfer,
\* ConnectionLog or handshake session.
C19_Unauthenticated401 == [](anon.status \in {0, 401}) /\ [][C19_Step]_vars

C19_Witness ==
    /\ anon = [route |-> "POST /handshake", status |-> 401]
    /\ Len(sessions) = 1
    /\ lastInit.route = "/handshake"
    /\ Len(alerts) = 1
    /\ Len(transfers) = 1

(***************************************************************************)
(* GET /alerts (api.js lines 18-32):                                       *)
(*   Alert.find({ userId }).sort({ createdAt: -1 }).limit(100)             *)
(***************************************************************************)
AlertsLimit == 100

\* the collection with each document's createdAt, its position in creation order
withCreatedAt(as) == [i \in 1..Len(as) |-> as[i] @@ [created_at |-> i]]

\* a find that drops the userId filter
find_AnyUser(as, user) == withCreatedAt(as)

\* Alert.find({ userId: req.user.id })
find(as, user) == SelectSeq(withCreatedAt(as), LAMBDA a : a.userId = user)

RECURSIVE insertNewestFirst(_, _)
insertNewestFirst(a, s) ==
    IF s = <<>> THEN <<a>>
    ELSE IF a.created_at >= Head(s).created_at THEN <<a>> \o s
    ELSE <<Head(s)>> \o insertNewestFirst(a, Tail(s))

\* .sort({ createdAt: -1 })
RECURSIVE sortNewestFirst(_)
sortNewestFirst(s) ==
    IF s = <<>> THEN <<>>
    ELSE insertNewestFirst(Head(s), sortNewestFirst(Tail(s)))

\* .limit(n)
limit(s, n) == SubSeq(s, 1, Min(Len(s), n))

\* the body of the response of GET /alerts for the user of the token
getAlerts(user) == limit(sortNewestFirst(find(alerts, user)), AlertsLimit)

\* the uploads of a user that were answered 403
Rejected403(user) ==
    {i \in 1..Len(reqs) : Finished(i) /\ reqs[i].user = user /\ reqs[i].status = 403}

\* checkAlerts (upload_test_files.js lines 98-100)
corruptedAlerts(res) ==
    SelectSeq(res, LAMBDA a : a.threat_type \in {"CorruptedFile", "SuspiciousFile"})

NewestFirst(res) ==
    \A i, j \in 1..Len(res) : i < j => res[i].created_at > res[j].created_at

\* C20: after k uploads of one user were answered 403 (k <= 100), GET /alerts
\* for that user returns alerts of that user only, newest first, at least k of
\* them with threat_type CorruptedFile or SuspiciousFile.
C20_RejectedLeavesAlert ==
    \A user \in Users :
        LET k == Cardinality(Rejected403(user))
            res == getAlerts(user)
        IN  k <= AlertsLimit =>
                /\ Len(corruptedAlerts(res)) >= k
                /\ \A n \in 1..Len(res) : res[n].userId = user
                /\ NewestFirst(res)

C20_Witness ==
    /\ Cardinality(Rejected403("alice")) = 1
    /\ Cardinality(Rejected403("bob")) = 1
    /\ Len(getAlerts("alice")) = 1
    /\ getAlerts("alice")[1].threat_type = "SuspiciousFile"
    /\ getAlerts("bob")[1].threat_type = "CorruptedFile"
    /\ getAlerts("bob")[1].created_at = 1
    /\ reqs[1].user = "alice"

(***************************************************************************)
(* Properties of the classifier.                                           *)
(***************************************************************************)
\* the bands as stated, on entropies in thousandths of a bit
StatedLevel(e) ==
    CASE e = 0 -> 4
      [] e > 0 /\ e < 4500 -> 3
      [] e >= 4500 /\ e < 7200 -> 0
      [] e >= 7200 /\ e < 7900 -> 2
      [] e >= 7900 -> 4

BandEdges == {0, 1, 4499, 4500, 4501, 7199, 7200, 7201, 7899, 7900, 7901, 8000}

AllIdentical(buf) == Len(buf) > 0 /\ \A i \in 1..Len(buf) : buf[i] = buf[1]

C23_OversizeRefused ==
    \A i \in 1..Len(reqs) :
        /\ reqs[i].file.attached /\ reqs[i].file.size > 100 * 1024 * 1024 =>
              /\ Finished(i)
              /\ reqs[i].status = 400
              /\ ~reqs[i].validated
              /\ ~reqs[i].idsCalled
              /\ reqs[i].alertsMade = 0
              /\ reqs[i].transfersMade = 0
        /\ reqs[i].file.length > 0 /\ reqs[i].file.size = 100 * 1024 * 1024 =>
              /\ reqs[i].validated
              /\ reqs[i].error # "File size exceeds 100MB limit"

C23_Witness ==
    /\ Len(reqs) = 2
    /\ reqs[1].file.size = 100 * 1024 * 1024 + 1
    /\ reqs[1].status = 400
    /\ reqs[1].error = "File size exceeds 100MB limit"
    /\ reqs[2].file.size = 100 * 1024 * 1024
    /\ reqs[2].status = 200
    /\ alerts = <<>>
    /\ Len(transfers) = 1

\* what the strict criteria look at in an assessment
StrictlyBad(v) ==
    \/ v.isCorrupted
    \/ v.isSuspicious
    \/ v.riskScore > 30
    \/ ~v.isValid
    \/ v.issues # <<>>

\* C24: an upload is rejected whenever its validation reports isCorrupted,
\* isSuspicious, a riskScore above 0.3, isValid false or any issue at all; no
\* upload with a non-empty issues list is stored.
C24_StrictRejection ==
    \A i \in 1..Len(reqs) :
        Decided(i) /\ StrictlyBad(Validation[reqs[i].file]) =>
            /\ reqs[i].status = 403
            /\ reqs[i].transfersMade = 0

\* the alert records an oracle response or the marker of a failed oracle call
CarriesOracle(a) ==
    \/ a.ids.verdict \in {"normal", "suspicious"} /\ a.ids.error = "none"
    \/ a.ids.error \in UnavailableMarkers

\* C25: every alert created for a rejected upload, from either rejection
\* branch, carries the issues list, the detected type, the entropy,
\* blocked = true, and the oracle response or an oracle-failure marker.
C25_AlertCarriesEvidence ==
    \A n \in 1..Len(alerts) :
        /\ alerts[n].issues # <<>>
        /\ alerts[n].detected_type # NullType
        /\ alerts[n].has_entropy
        /\ alerts[n].blocked
        /\ CarriesOracle(alerts[n])

\* C26: every Alert created for a blocked upload, from whichever rejection
\* branch, is broadcast as an 'intrusion_alert' message to the open WebSocket
\* clients, and a failing broadcast neither undoes the alert nor changes the
\* 403 response.
C26_AlertBroadcast ==
    \A i \in 1..Len(reqs) :
        Finished(i) /\ reqs[i].alertsMade = 1 =>
            /\ reqs[i].ws \in WsOutcomes
            /\ reqs[i].status = 403

\* an upload that passes local validation: level below 2 and not corrupted
PassesLocally(i) ==
    /\ Regular(i)
    /\ Validation[reqs[i].file].criticalityLevel < 2
    /\ ~Validation[reqs[i].file].isCorrupted

\* C27: when the oracle is unreachable, an upload that passes local
\* validation is still accepted and stored: HTTP 200 with a Transfer record.
C27_OracleOptional ==
    \A i \in 1..Len(reqs) :
        Finished(i) /\ PassesLocally(i) /\ reqs[i].reply = IdsDown =>
            /\ reqs[i].status = 200
            /\ reqs[i].transfersMade = 1

C28_Order ==
    \A i \in 1..Len(reqs) :
        /\ reqs[i].idsCalled =>
              /\ reqs[i].validated
              /\ Validation[reqs[i].file].criticalityLevel < 2
        /\ reqs[i].pc = "ids" => reqs[i].transfersMade = 0 /\ reqs[i].status = 0
        /\ reqs[i].transfersMade = 1 =>
              /\ reqs[i].idsCalled
              /\ reqs[i].reply \in IdsReplies
        /\ reqs[i].validated /\ Validation[reqs[i].file].criticalityLevel >= 2 =>
              /\ ~reqs[i].idsCalled
              /\ reqs[i].reply = NoReply

C28_Step ==
    Len(transfers') > Len(transfers) =>
        \E i \in 1..Len(reqs) :
            /\ reqs[i].pc = "ids"
            /\ reqs'[i].pc = "done"
            /\ reqs'[i].reply \in IdsReplies

IsPrefix(sig, buf) == Len(sig) <= Len(buf) /\ SubSeq(buf, 1, Len(sig)) = sig

\* the table entries whose signature starts the buffer
Matching(buf) ==
    {k \in 1..Len(FILE_SIGNATURES) : IsPrefix(FILE_SIGNATURES[k].sig, buf)}

\* C29: for a non-empty buffer detectFileType returns the type of the first
\* entry, in table order, whose signature is a prefix of the buffer, and
\* 'application/octet-stream', never null, when no signature matches; the
\* result depends on the bytes only.
C29_FirstMatchingSignature ==
    assessment.assessed =>
        /\ \A n \in 1..Len(assessment.history) :
              LET buf == Bytes(assessment.history[n].input.buf)
                  type == assessment.history[n].result.detectedType
              IN  /\ type # NullType
                  /\ Matching(buf) = {} => type = OctetStream
                  /\ \A k \in Matching(buf) :
                        (\A j \in Matching(buf) : k <= j) =>
                            type = FILE_SIGNATURES[k].mime
        /\ \A m, n \in 1..Len(assessment.history) :
              assessment.history[m].input.buf = assessment.history[n].input.buf =>
                  assessment.history[m].result.detectedType =
                      assessment.history[n].result.detectedType

C29_Witness ==
    /\ assessment.assessed
    /\ Len(assessment.history) = 2
    /\ assessment.history[1].input.buf = "zipVaried"
    /\ Cardinality(Matching(Bytes("zipVaried"))) = 2
    /\ assessment.history[1].result.detectedType =
           "application/vnd.openxmlformats-officedocument.wordprocessingml.document"
    /\ assessment.history[2].input.buf = "text38"
    /\ assessment.history[2].result.detectedType = OctetStream

ZIP_SIGNATURE == <<80, 75, 3, 4>>

HasIssue(v, text) == \E n \in 1..Len(v.issues) : v.issues[n] = text

\* C30: a buffer that starts with the ZIP signature 50 4B 03 04 is typed as a
\* ZIP archive and is checked by the ZIP structural validator (an archive the
\* parser cannot read gets a ZIP issue); under a .zip file name a well-formed
\* archive gets no extension-mismatch issue.
C30_ZipTypedAndChecked ==
    \A i \in 1..Len(reqs) :
        LET f == reqs[i].file
            v == Validation[f]
        IN  reqs[i].validated /\ SignatureMatches(Bytes(f.buf), ZIP_SIGNATURE) =>
                /\ v.detectedType = "application/zip"
                /\ f.parse = "throws" => HasIssue(v, "ZIP parse error")
                /\ f.parse = "ok" /\ Extension(f.name) = "zip" =>
                       ~HasIssue(v, "File extension does not match detected type")

(***************************************************************************)
(* The alert routes by id (api.js lines 34-54).  An alert's id is its      *)
(* position in the collection.                                             *)
(***************************************************************************)
NotFound == [status |-> 404]

\* GET /alerts/:id: Alert.findOne({ _id, userId: req.user.id })
getAlertById(user, id) ==
    IF id \in 1..Len(alerts) /\ alerts[id].userId = user
    THEN [status |-> 200, alert |-> alerts[id]]
    ELSE NotFound

\* PATCH /alerts/:id/resolve: Alert.updateOne({ _id, userId }, { $set: { resolved: true } })
alertsAfterResolve(as, user, id) ==
    IF id \in 1..Len(as) /\ as[id].userId = user
    THEN [as EXCEPT ![id].resolved = TRUE]
    ELSE as

\* C31: alerts are confined to their owner: for users A # B no operation
\* (GET /alerts, GET /alerts/:id, PATCH /alerts/:id/resolve, the WebSocket
\* broadcast of a blocked upload of A) delivers an alert of A to B or lets B
\* change it.
C31_AlertsConfined ==
    \A A \in Users : \A B \in Users \ {A} :
        /\ \A n \in 1..Len(alerts) :
              alerts[n].userId = A =>
                  /\ getAlertById(B, n) = NotFound
                  /\ alertsAfterResolve(alerts, B, n) = alerts
        /\ \A n \in 1..Len(getAlerts(B)) : getAlerts(B)[n].userId # A
        /\ \A i \in 1..Len(reqs) :
              reqs[i].user = A => B \notin reqs[i].delivered

(***************************************************************************)
(* Properties of handlers that throw.                                      *)
(***************************************************************************)
\* C32: every authenticated request to the upload routes and to POST
\* /handshake/validate receives exactly one HTTP response, also when
\* validateFile, a database call or validateHandshake throws before a
\* response was sent: no handler ends without having answered.
C32_AlwaysAnswered ==
    /\ \A i \in 1..Len(reqs) : Finished(i) => reqs[i].status \in {200, 400, 403, 500}
    /\ \A c \in 1..Len(calls) :
          calls[c].route = "/handshake/validate" /\ calls[c].pc = "done" =>
              calls[c].status # 0

(***************************************************************************)
(* HandshakePanel (part_001 lines 10-190 and 302-311).                     *)
(***************************************************************************)
MaxClicks == 2

\* line 304: disabled={isConnecting || connectionStatus === 'connected' ||
\* backendStatus === 'offline'}
buttonDisabled(hp) ==
    \/ hp.isConnecting
    \/ hp.connectionStatus = "connected"
    \/ hp.backendStatus = "offline"

\* line 305: loading={isConnecting || backendStatus === 'checking'}
buttonLoading(hp) == hp.isConnecting \/ hp.backendStatus = "checking"

\* lines 51-62: the effect that restores a stored session when backendStatus
\* changes
restoreSession(hp) ==
    IF hp.storage = StorageKeys /\ hp.backendStatus = "online"
    THEN [hp EXCEPT !.connectionStatus = "connected"]
    ELSE hp

\* what the init/validate exchange of one invocation ends with: a request
\* that throws (a network error or another one), or the data of a 2xx
\* answer of POST /handshake/validate
ExchangeResults ==
    {[kind |-> "network", data |-> NoData], [kind |-> "error", data |-> NoData]}
    \cup {[kind |-> "validated",
           data |-> [verified |-> v, sessionKey |-> k, verdict |-> w]] :
             v \in BOOLEAN, k \in {NoKey, keyOf(1)},
             w \in {"none", "normal", "suspicious"}}

\* lines 141-146: the three setItem calls in one try; one that throws skips
\* the rest
StorageWrites ==
    {{}, {"session_key"}, {"session_key", "handshake_id"}, StorageKeys}

\* lines 29-30 and 46-47: checkBackend starts, every 10 seconds
CheckBackendStart ==
    /\ ~client.handshakePanel.healthPending
    /\ client' = [client EXCEPT !.handshakePanel.healthPending = TRUE,
                                !.handshakePanel.backendStatus = "checking"]
    /\ UNCHANGED <<uploadVars, classifyVars, handshakeVars, anon>>

\* lines 31-44: checkBackend gets its answer, and the effect of lines 51-62
\* runs on the change of backendStatus
CheckBackendReply(ok) ==
    /\ client.handshakePanel.healthPending
    /\ client' = [client EXCEPT !.handshakePanel =
           IF ok
           THEN restoreSession([@ EXCEPT !.healthPending = FALSE,
                                         !.backendStatus = "online"])
           ELSE [@ EXCEPT !.healthPending = FALSE,
                          !.backendStatus = "offline",
                          !.connectionStatus = "backend_unavailable"]]
    /\ UNCHANGED <<uploadVars, classifyVars, handshakeVars, anon>>

\* a click on the button: initiateHandshake starts and awaits checkHealth
\* (lines 73-76); spinner records whether the button was shown as loading
Click ==
    /\ Len(client.handshakePanel.invocations) < MaxClicks
    /\ ~buttonDisabled(client.handshakePanel)
    /\ client' = [client EXCEPT !.handshakePanel.invocations =
                      Append(@, [pc |-> "health", result |-> "none",
                                 data |-> NoData,
                                 spinner |-> buttonLoading(client.handshakePanel)])]
    /\ UNCHANGED <<uploadVars, classifyVars, handshakeVars, anon>>

\* lines 76-89: the health check of invocation k answers
HealthReply(k, ok) ==
    /\ k \in 1..Len(client.handshakePanel.invocations)
    /\ client.handshakePanel.invocations[k].pc = "health"
    /\ client' = [client EXCEPT !.handshakePanel =
           IF ok
           THEN [@ EXCEPT !.isConnecting = TRUE,
                          !.connectionStatus = "connecting",
                          !.invocations[k].pc = "exchange"]
           ELSE [@ EXCEPT !.backendStatus = "offline",
                          !.connectionStatus = "backend_unavailable",
                          !.invocations[k].pc = "done",
                          !.invocations[k].result = "offline"]]
    /\ UNCHANGED <<uploadVars, classifyVars, handshakeVars, anon>>

\* lines 126-151 and 172-174: the validate answer is secure
sessionEstablished(hp, k, data, written) ==
    [hp EXCEPT !.storage = @ \cup written,
               !.connectionStatus = "connected",
               !.isConnecting = FALSE,
               !.invocations[k].pc = "done",
               !.invocations[k].result = "secure",
               !.invocations[k].data = data]

\* a catch block that stores the keys all the same
handshakeFailed_StoresKeys(hp, k, kind, data) ==
    [hp EXCEPT !.storage = StorageKeys,
               !.connectionStatus = "failed",
               !.isConnecting = FALSE,
               !.invocations[k].pc = "done",
               !.invocations[k].result = "failed",
               !.invocations[k].data = data]

\* lines 153-174: the catch and the finally
handshakeFailed(hp, k, kind, data) ==
    [hp EXCEPT !.connectionStatus =
                   IF kind = "network" THEN "backend_unavailable" ELSE "failed",
               !.backendStatus = IF kind = "network" THEN "offline" ELSE @,
               !.isConnecting = FALSE,
               !.invocations[k].pc = "done",
               !.invocations[k].result = "failed",
               !.invocations[k].data = data]

\* lines 91-174: the exchange of invocation k ends
ExchangeDone(k, r, written) ==
    /\ k \in 1..Len(client.handshakePanel.invocations)
    /\ client.handshakePanel.invocations[k].pc = "exchange"
    /\ client' = [client EXCEPT !.handshakePanel =
           IF r.kind = "validated" /\ validateHandshake(r.data).status = "secure"
           THEN sessionEstablished(@, k, r.data, written)
           ELSE handshakeFailed(@, k,
                    IF r.kind = "validated" THEN "error" ELSE r.kind, r.data)]
    /\ UNCHANGED <<uploadVars, classifyVars, handshakeVars, anon>>

\* lines 177-188
disconnect ==
    /\ client.handshakePanel.connectionStatus = "connected"
    /\ client' = [client EXCEPT !.handshakePanel.storage = {},
                                !.handshakePanel.connectionStatus = "idle"]
    /\ UNCHANGED <<uploadVars, classifyVars, handshakeVars, anon>>

PanelNext ==
    \/ CheckBackendStart
    \/ \E ok \in BOOLEAN : CheckBackendReply(ok)
    \/ Click
    \/ \E k \in 1..MaxClicks, ok \in BOOLEAN : HealthReply(k, ok)
    \/ \E k \in 1..MaxClicks, r \in ExchangeResults, w \in StorageWrites :
           ExchangeDone(k, r, w)
    \/ disconnect

PanelSpec == Init /\ [][PanelNext]_vars

\* the invocations of initiateHandshake that are in their init/validate
\* exchange after a click on a button that showed no spinner
InExchange ==
    {k \in 1..Len(client.handshakePanel.invocations) :
        /\ client.handshakePanel.invocations[k].pc = "exchange"
        /\ ~client.handshakePanel.invocations[k].spinner}

\* C33: in HandshakePanel at most one handshake attempt is in flight: for any
\* timing of the clicks and of the health-check reply, no invocation of
\* initiateHandshake starts its init/validate exchange while an earlier one
\* has not finished.
C33_OneAttemptInFlight == Cardinality(InExchange) <= 1


\* the invocations that ended with a validate answer the claim calls secure
SecurelyValidated ==
    {k \in 1..Len(client.handshakePanel.invocations) :
        /\ client.handshakePanel.invocations[k].pc = "done"
        /\ client.handshakePanel.invocations[k].data.verified
        /\ client.handshakePanel.invocations[k].data.verdict # "suspicious"}

C34_OnlyAfterSecure ==
    (\/ client.handshakePanel.storage # {}
     \/ client.handshakePanel.connectionStatus = "connected")
        => SecurelyValidated # {}

C34_Step ==
    /\ \A k \in 1..Len(client.handshakePanel.invocations) :
           (/\ client.handshakePanel.invocations[k].pc = "exchange"
            /\ client'.handshakePanel.invocations[k].result = "failed")
               => client'.handshakePanel.storage = client.handshakePanel.storage
    /\ (/\ client.handshakePanel.connectionStatus = "connected"
        /\ client'.handshakePanel.connectionStatus = "idle")
           => client'.handshakePanel.storage = {}

\* C34: the client holds any of session_key, handshake_id and server_pubkey
\* in localStorage, or shows 'connected', only once some validate answer had
\* verified true and a verdict other than 'suspicious'; the step that ends a
\* failed or suspicious attempt writes none of the three, and disconnect
\* leaves none of the three stored.
C34_KeysOnlyAfterSecure == [](C34_OnlyAfterSecure) /\ [][C34_Step]_vars

\* a suspicious attempt left nothing behind, a later secure one stored all
\* three keys and shows 'connected'
C34_Witness ==
    /\ client.handshakePanel.storage = StorageKeys
    /\ client.handshakePanel.connectionStatus = "connected"
    /\ \E j \in 1..Len(client.handshakePanel.invocations) :
           /\ client.handshakePanel.invocations[j].result = "failed"
           /\ client.handshakePanel.invocations[j].data.verified
           /\ client.handshakePanel.invocations[j].data.verdict = "suspicious"
    /\ \E k \in SecurelyValidated :
           client.handshakePanel.invocations[k].result = "secure"


(***************************************************************************)
(* IntrusionAlertsPanel (part_001 lines 406-478) with the server's two     *)
(* sources of alerts: GET /alerts and the WebSocket broadcast.             *)
(***************************************************************************)
MaxAlerts == 2

MaxPolls == 2

\* api.js line 18: the stored alerts of the user, newest first
alertsSnapshot(stored) == stored

\* part_001 line 428: setAlerts(prev => [newAlert, ...prev])
prependAlert(list, id) == <<id>> \o list

\* api.js lines 136-186: a rejected upload stores an alert and sends it to
\* every WebSocket client whose socket is open
AlertRaised ==
    /\ Len(client.alertsPanel.stored) < MaxAlerts
    /\ LET id == Len(client.alertsPanel.stored) + 1
       IN  client' = [client EXCEPT
               !.alertsPanel.stored = <<id>> \o @,
               !.alertsPanel.wsQueue =
                   IF client.alertsPanel.socket = "open" THEN Append(@, id) ELSE @]
    /\ UNCHANGED <<uploadVars, classifyVars, handshakeVars, anon>>

\* api.ts line 179: the socket of connectWebSocket opens
SocketOpens ==
    /\ client.alertsPanel.socket = "connecting"
    /\ client' = [client EXCEPT !.alertsPanel.socket = "open"]
    /\ UNCHANGED <<uploadVars, classifyVars, handshakeVars, anon>>

\* part_001 lines 421-423: the interval calls loadAlerts, which sends
\* GET /alerts (line 470)
PollTick ==
    /\ client.alertsPanel.requests < MaxPolls
    /\ client' = [client EXCEPT !.alertsPanel.requests = @ + 1]
    /\ UNCHANGED <<uploadVars, classifyVars, handshakeVars, anon>>

\* api.js lines 17-32: the server answers one GET /alerts
AlertsServed ==
    /\ client.alertsPanel.requests > 0
    /\ client' = [client EXCEPT
           !.alertsPanel.requests = @ - 1,
           !.alertsPanel.replies =
               @ \cup {alertsSnapshot(client.alertsPanel.stored)}]
    /\ UNCHANGED <<uploadVars, classifyVars, handshakeVars, anon>>

\* part_001 lines 470-471: the answer arrives and replaces the list
PollReply(snapshot) ==
    /\ snapshot \in client.alertsPanel.replies
    /\ client' = [client EXCEPT !.alertsPanel.replies = @ \ {snapshot},
                                !.alertsPanel.alerts = snapshot]
    /\ UNCHANGED <<uploadVars, classifyVars, handshakeVars, anon>>

\* api.ts lines 181-190 and part_001 lines 427-428: an 'intrusion_alert'
\* message arrives
WsMessage ==
    /\ client.alertsPanel.socket = "open"
    /\ client.alertsPanel.wsQueue # <<>>
    /\ client' = [client EXCEPT
           !.alertsPanel.wsQueue = Tail(@),
           !.alertsPanel.alerts = prependAlert(@, Head(client.alertsPanel.wsQueue))]
    /\ UNCHANGED <<uploadVars, classifyVars, handshakeVars, anon>>

\* part_001 lines 417-445: liveMode changes; the cleanup closes the socket,
\* the effect runs again, calls loadAlerts and in live mode connects anew
ToggleLive ==
    /\ client.alertsPanel.requests < MaxPolls
    /\ client' = [client EXCEPT
           !.alertsPanel.liveMode = ~@,
           !.alertsPanel.socket =
               IF client.alertsPanel.liveMode THEN "closed" ELSE "connecting",
           !.alertsPanel.wsQueue = <<>>,
           !.alertsPanel.requests = @ + 1]
    /\ UNCHANGED <<uploadVars, classifyVars, handshakeVars, anon>>

AlertsPanelNext ==
    \/ AlertRaised
    \/ SocketOpens
    \/ PollTick
    \/ AlertsServed
    \/ \E n \in 0..MaxAlerts : PollReply([i \in 1..n |-> n + 1 - i])
    \/ WsMessage
    \/ ToggleLive

AlertsPanelSpec == Init /\ [][AlertsPanelNext]_vars

\* C35: in live mode the list of alerts held by IntrusionAlertsPanel never
\* holds two entries with the same alert id, for any interleaving of the
\* polling reload, which replaces the list, and of the WebSocket messages,
\* which are put in front of it.
C35_NoDuplicateIds ==
    client.alertsPanel.liveMode =>
        \A i \in DOMAIN client.alertsPanel.alerts :
            \A j \in DOMAIN client.alertsPanel.alerts :
                client.alertsPanel.alerts[i] = client.alertsPanel.alerts[j]
                    => i = j


(***************************************************************************)
(* FileTransferPanel (FileTransferPanel.tsx lines 21-235) in front of the  *)
(* server's uploadHandler.                                                 *)
(***************************************************************************)
MaxItems == 2

BackendStates == {"checking", "online", "offline"}

\* FileTransferPanel.tsx line 25 and lines 159-160: localStorage holds a
\* session key
hasSession == "session_key" \in client.handshakePanel.storage

\* lines 123-134 and 139-156: a new queue item, after processUpload has run
\* up to its first await
NewItem == [status |-> "encrypting", pc |-> "encrypt", req |-> 0,
            http |-> 0, verdict |-> "none"]

\* a panel that takes every answer of the server for a stored upload
itemAfterAnswer_AnyAnswer(item, i, http, bodyStatus, idsVerdict) ==
    [item EXCEPT !.pc = "done", !.req = i, !.http = http,
                 !.status = "completed", !.verdict = "normal"]

\* lines 190-223 and ApiClient.uploadFile: the queue item once the server's
\* answer to request i has arrived
itemAfterAnswer(item, i, http, bodyStatus, idsVerdict) ==
    LET verdict == IF bodyStatus # "none" THEN bodyStatus
                   ELSE IF idsVerdict # "none" THEN idsVerdict
                   ELSE "normal"
        isSuspicious == verdict = "suspicious" \/ bodyStatus = "suspicious"
    IN  IF http # 200
        THEN [item EXCEPT !.pc = "done", !.req = i, !.http = http,
                          !.status = "failed",
                          !.verdict = IF http = 403 THEN "suspicious" ELSE @]
        ELSE [item EXCEPT !.pc = "done", !.req = i, !.http = http,
                          !.status = IF isSuspicious THEN "failed" ELSE "completed",
                          !.verdict = IF isSuspicious THEN "suspicious" ELSE "normal"]

\* lines 28-42: the panel's own health check ends, or starts again
TransferBackend(s) ==
    /\ client.transferPanel.backendStatus # s
    /\ client' = [client EXCEPT !.transferPanel.backendStatus = s]
    /\ UNCHANGED <<uploadVars, classifyVars, handshakeVars, anon>>

\* lines 58-136 and 139-156: a valid file is chosen or dropped
handleFiles ==
    /\ Len(client.transferPanel.queue) < MaxItems
    /\ hasSession
    /\ client.transferPanel.backendStatus # "offline"
    /\ client' = [client EXCEPT !.transferPanel.queue = Append(@, NewItem)]
    /\ UNCHANGED <<uploadVars, classifyVars, handshakeVars, anon>>

\* lines 157-180: the session key is read and the file encrypted
EncryptDone(q, ok) ==
    /\ q \in 1..Len(client.transferPanel.queue)
    /\ client.transferPanel.queue[q].pc = "encrypt"
    /\ client' = [client EXCEPT !.transferPanel.queue[q] =
           IF hasSession /\ ok
           THEN [@ EXCEPT !.status = "uploading", !.pc = "sent"]
           ELSE [@ EXCEPT !.status = "failed", !.pc = "done"]]
    /\ UNCHANGED <<uploadVars, classifyVars, handshakeVars, anon>>

\* the requests whose answer no queue item has received
Unclaimed ==
    {i \in 1..Len(reqs) :
        /\ Finished(i)
        /\ \A q \in 1..Len(client.transferPanel.queue) :
               client.transferPanel.queue[q].req # i}

\* lines 190-218: the answer to the upload of item q arrives
UploadAnswered(q, i) ==
    /\ q \in 1..Len(client.transferPanel.queue)
    /\ client.transferPanel.queue[q].pc = "sent"
    /\ i \in Unclaimed
    /\ client' = [client EXCEPT !.transferPanel.queue[q] =
           itemAfterAnswer(@, i, reqs[i].status, reqs[i].bodyStatus,
                           reqs[i].idsResult.verdict)]
    /\ UNCHANGED <<uploadVars, classifyVars, handshakeVars, anon>>

\* lines 205 and 219-223: the request fails without an answer (network
\* error, or the 15 second timeout of the axios client)
UploadNoAnswer(q) ==
    /\ q \in 1..Len(client.transferPanel.queue)
    /\ client.transferPanel.queue[q].pc = "sent"
    /\ client' = [client EXCEPT !.transferPanel.queue[q] =
           [@ EXCEPT !.status = "failed", !.pc = "done"]]
    /\ UNCHANGED <<uploadVars, classifyVars, handshakeVars, anon>>

\* the page is opened with the keys of an earlier handshake in localStorage
TransferInit ==
    /\ UploadInit
    /\ ClassifyIdle
    /\ HandshakeInit
    /\ anon = NoAnswer
    /\ client = [ClientInit EXCEPT !.handshakePanel.storage = StorageKeys]

TransferNext ==
    \/ \E s \in BackendStates : TransferBackend(s)
    \/ handleFiles
    \/ \E q \in 1..MaxItems, ok \in BOOLEAN : EncryptDone(q, ok)
    \/ \E q \in 1..MaxItems, i \in 1..MaxUploads : UploadAnswered(q, i)
    \/ \E q \in 1..MaxItems : UploadNoAnswer(q)
    \/ \E f \in ThrowInputs : UploadStart("alice", f)
    \/ \E i \in 1..MaxUploads,
          reply \in {IdsDown, CHOOSE r \in IdsReplies : r.verdict = "normal"} :
          UploadIdsDone(i, reply)
    \/ \E i \in 1..MaxUploads : UploadIdsDbFails(i, IdsDown)
    \/ \E ok \in BOOLEAN : CheckBackendReply(ok)
    \/ disconnect

TransferSpec == TransferInit /\ [][TransferNext]_vars

Items == 1..Len(client.transferPanel.queue)

Ended(q) == client.transferPanel.queue[q].status \in {"completed", "failed"}

C36_CompletedMeansStored ==
    \A q \in Items :
        LET item == client.transferPanel.queue[q]
        IN  /\ item.status = "completed" =>
                /\ item.req \in 1..Len(reqs)
                /\ reqs[item.req].status = 200
                /\ reqs[item.req].bodyStatus # "suspicious"
                /\ reqs[item.req].transfersMade = 1
            /\ item.pc = "done" => Ended(q)
            /\ item.pc = "done" /\ item.req = 0 => item.status = "failed"
            /\ item.pc = "done" /\ item.req # 0 /\ reqs[item.req].status # 200
                   => item.status = "failed"

C36_EndedStays ==
    \A q \in Items :
        Ended(q) => client'.transferPanel.queue[q].status =
                        client.transferPanel.queue[q].status

\* C36: a queue item of FileTransferPanel is 'completed' only if the server
\* answered its upload with HTTP 200 and a status other than 'suspicious',
\* having stored a Transfer; after a 403, another error status or a request
\* without an answer the item is 'failed'; an item whose processing is over is
\* in one of the two states and stays in it.
C36_CompletedOnlyIfStored ==
    [](C36_CompletedMeansStored) /\ [][C36_EndedStays]_vars

\* one item completed on a stored upload while another failed on a 403
C36_Witness ==
    \E q \in Items : \E p \in Items :
        /\ client.transferPanel.queue[q].status = "completed"
        /\ reqs[client.transferPanel.queue[q].req].transfersMade = 1
        /\ client.transferPanel.queue[p].status = "failed"
        /\ client.transferPanel.queue[p].http = 403

====
